---- MODULE Spec2Model ----
(***************************************************************************)
(* A model of the ingress-merge controller (tsuru/ingress-merge).          *)
(*                                                                         *)
(*   - ingress_bucket.go: the bucket planner GenerateIngressBuckets and    *)
(*     the slot accounting ingressSlots, as operators;                     *)
(*   - controller.go: the merge builder, the diff hasIngressChanged, the   *)
(*     apply step and the status reflector of reconcileIngressBucket, the  *)
(*     namespace reconciler and the event router, as operators and as the  *)
(*     actions of a state machine over the objects of one namespace.       *)
(*                                                                         *)
(* Names of objects are integers (the planner orders buckets by name);     *)
(* a nil pointer is the empty sequence and a pointer to v is <<v>>; a Go    *)
(* map[string]string is a function from a set of strings to strings.       *)
(*                                                                         *)
(* PlannerSpec, SlotSpec, MergeSpec, IgnoreSpec and DiffSpec run the       *)
(* planner, ingressSlots, the merge builder and the diff once on drawn     *)
(* arguments; Spec is the controller in a namespace that users, the load   *)
(* balancer and other controllers write to, at most MaxWrites times;       *)
(* StabilitySpec, PrioritySpec, AnnotationSpec, SkipSpec and RouterSpec are*)
(* the controller in namespaces drawn for one question each (an origin     *)
(* added, priorities, annotations given by the config, origins that are    *)
(* skipped, the requests the router receives); QuietSpec is the controller *)
(* reconciling again and again a namespace nobody writes to; ReplaceSpec   *)
(* is the controller with merged ingresses that others label and annotate; *)
(* FaultSpec and ConfigFaultSpec are the controller with calls that fail:  *)
(* a Create that is refused, a merged ingress deleted before its Get or    *)
(* written between its Get and its Update, the Get of a config that fails. *)
(*                                                                         *)
(* Left out: the failure of a call for another reason than a missing or    *)
(* stale object (but for the Get of Reconcile in RouterSpec, the Create in *)
(* FaultSpec and the Get of a config in ConfigFaultSpec); the difference   *)
(* between a nil and an empty map or slice; the pointer HTTP of a rule     *)
(* outside SlotSpec (rules carry their paths); the garbage collection of   *)
(* merged ingresses outside FaultSpec; creation times that are equal       *)
(* (every origin is created at a time of its own).                         *)
(***************************************************************************)
EXTENDS Integers, Sequences, FiniteSets, TLC

\* ------------------------------------------------------------------------
\* controller.go: annotation vocabulary and config keys
\* ------------------------------------------------------------------------

IngressClassAnnotation == "kubernetes.io/ingress.class"
ConfigAnnotation == "merge.ingress.kubernetes.io/config"
FromConfigAnnotation == "merge.ingress.kubernetes.io/from-config"
PriorityAnnotation == "merge.ingress.kubernetes.io/priority"
ResultAnnotation == "merge.ingress.kubernetes.io/result"

LabelsConfigKey == "labels"
AnnotationsConfigKey == "annotations"
BackendConfigKey == "backend"
UseWildcardTLSKey == "use-wildcard-tls"
IngressClassNameKey == "ingressClassName"
wildcardTLSSuffix == "-wildcard-tls"

\* ------------------------------------------------------------------------
\* Go values
\* ------------------------------------------------------------------------

\* a nil pointer, a nil slice
Nil == <<>>

\* a pointer to v
Ptr(v) == <<v>>

\* m[k] of a Go map[string]string: the zero value "" for a missing key
MapGet(m, k) == IF k \in DOMAIN m THEN m[k] ELSE ""

\* m[k] = v of a Go map
MapSet(m, k, v) == [x \in DOMAIN m \cup {k} |-> IF x = k THEN v ELSE m[x]]

\* m[k] = append(m[k], v) of a Go map of slices
MapSetSeq(m, k, v) ==
    [x \in DOMAIN m \cup {k} |->
        IF x = k THEN (IF k \in DOMAIN m THEN Append(m[k], v) ELSE <<v>>) ELSE m[x]]

\* the map without entries
EmptyMap == [k \in {} |-> ""]

\* sort.Slice(s, less) on a slice of fewer than 12 elements: Go sorts such a
\* slice by insertion sort (an element moves left past its left neighbour
\* only while less(element, neighbour)), so equal elements keep their order.
RECURSIVE InsertSorted(_, _, _)
InsertSorted(Less(_, _), e, s) ==
    IF s = <<>> THEN <<e>>
    ELSE IF Less(e, s[Len(s)])
         THEN Append(InsertSorted(Less, e, SubSeq(s, 1, Len(s) - 1)), s[Len(s)])
         ELSE Append(s, e)

RECURSIVE SortSlice(_, _)
SortSlice(Less(_, _), s) ==
    IF s = <<>> THEN <<>>
    ELSE InsertSorted(Less, s[Len(s)], SortSlice(Less, SubSeq(s, 1, Len(s) - 1)))

\* ------------------------------------------------------------------------
\* ingress_bucket.go
\* ------------------------------------------------------------------------

\* ingressSlots: one slot per path, one for a rule without paths, one for
\* an ingress without rules
RECURSIVE RuleSlots(_)
RuleSlots(rules) ==
    IF rules = <<>> THEN 0
    ELSE (IF Len(Head(rules).Paths) = 0 THEN 1 ELSE Len(Head(rules).Paths))
         + RuleSlots(Tail(rules))

ingressSlots(ingress) ==
    LET slots == RuleSlots(ingress.Spec.Rules)
    IN  IF slots = 0 THEN 1 ELSE slots

\* dependencyKey{name, uid}
dependencyKey(name, uid) == <<name, uid>>

\* the keys of the Ingress-kind owner references of a destination
OwnerKeys(destination) ==
    {dependencyKey(destination.OwnerReferences[i].Name, destination.OwnerReferences[i].UID) :
        i \in {j \in 1..Len(destination.OwnerReferences) :
                  destination.OwnerReferences[j].Kind = "Ingress"}}

\* originToDestinationMap[k] after the loop over the destinations: the last
\* destination that lists k (a later destination overwrites the entry), nil
\* when none does
originToDestinationMap(destinations, k) ==
    LET listing == {i \in 1..Len(destinations) : k \in OwnerKeys(destinations[i])}
    IN  IF listing = {} THEN Nil
        ELSE Ptr(destinations[CHOOSE i \in listing : \A j \in listing : j <= i])

\* bucketsWithDestinationMap after the loop over the destinations: one
\* bucket per key (name, uid), holding the last destination of that key
bucketsWithDestinationMap(destinations, maxServices) ==
    LET keys == {dependencyKey(destinations[i].Name, destinations[i].UID) :
                    i \in 1..Len(destinations)}
        last(k) == CHOOSE i \in 1..Len(destinations) :
                      /\ dependencyKey(destinations[i].Name, destinations[i].UID) = k
                      /\ \A j \in 1..Len(destinations) :
                            dependencyKey(destinations[j].Name, destinations[j].UID) = k
                                => j <= i
    IN  [k \in keys |->
            [Name |-> destinations[last(k)].Name,
             FreeSlots |-> maxServices,
             Ingresses |-> <<>>,
             DestinationIngress |-> Ptr(destinations[last(k)])]]

\* AttachOrigins with a capacity test: a listed origin that does not fit its
\* destination's bucket is handed to the packing instead
RECURSIVE AttachOriginsWithRoom(_, _, _, _)
AttachOriginsWithRoom(origins, destinations, buckets, without) ==
    IF origins = <<>> THEN [buckets |-> buckets, without |-> without]
    ELSE
        LET origin == Head(origins)
            k == dependencyKey(origin.Name, origin.UID)
            dest == originToDestinationMap(destinations, k)
            destinationKey == dependencyKey(dest[1].Name, dest[1].UID)
        IN  IF dest # Nil /\ buckets[destinationKey].FreeSlots - ingressSlots(origin) >= 0
            THEN LET b == buckets[destinationKey]
                 IN  AttachOriginsWithRoom(Tail(origins), destinations,
                        [buckets EXCEPT ![destinationKey] =
                            [b EXCEPT !.Ingresses = Append(b.Ingresses, origin),
                                      !.FreeSlots = b.FreeSlots - ingressSlots(origin)]],
                        without)
            ELSE AttachOriginsWithRoom(Tail(origins), destinations, buckets,
                                       Append(without, origin))

\* AttachOrigins without its continue: a listed origin is appended to its
\* destination's bucket and to ingressesWithoutDestination as well
RECURSIVE AttachOriginsNoContinue(_, _, _, _)
AttachOriginsNoContinue(origins, destinations, buckets, without) ==
    IF origins = <<>> THEN [buckets |-> buckets, without |-> without]
    ELSE
        LET origin == Head(origins)
            k == dependencyKey(origin.Name, origin.UID)
            dest == originToDestinationMap(destinations, k)
        IN  IF dest # Nil
            THEN LET destinationKey == dependencyKey(dest[1].Name, dest[1].UID)
                     b == buckets[destinationKey]
                 IN  AttachOriginsNoContinue(Tail(origins), destinations,
                        [buckets EXCEPT ![destinationKey] =
                            [b EXCEPT !.Ingresses = Append(b.Ingresses, origin),
                                      !.FreeSlots = b.FreeSlots - ingressSlots(origin)]],
                        Append(without, origin))
            ELSE AttachOriginsNoContinue(Tail(origins), destinations, buckets,
                                         Append(without, origin))

\* AttachOrigins without the decrement of FreeSlots
RECURSIVE AttachOriginsUncounted(_, _, _, _)
AttachOriginsUncounted(origins, destinations, buckets, without) ==
    IF origins = <<>> THEN [buckets |-> buckets, without |-> without]
    ELSE
        LET origin == Head(origins)
            k == dependencyKey(origin.Name, origin.UID)
            dest == originToDestinationMap(destinations, k)
        IN  IF dest # Nil
            THEN LET destinationKey == dependencyKey(dest[1].Name, dest[1].UID)
                     b == buckets[destinationKey]
                 IN  AttachOriginsUncounted(Tail(origins), destinations,
                        [buckets EXCEPT ![destinationKey] =
                            [b EXCEPT !.Ingresses = Append(b.Ingresses, origin)]],
                        without)
            ELSE AttachOriginsUncounted(Tail(origins), destinations, buckets,
                                        Append(without, origin))

\* the loop over the origins: an origin with an entry in
\* originToDestinationMap is appended to the bucket of that destination,
\* whatever its free slots; the others are collected
RECURSIVE AttachOrigins(_, _, _, _)
AttachOrigins(origins, destinations, buckets, without) ==
    IF origins = <<>> THEN [buckets |-> buckets, without |-> without]
    ELSE
        LET origin == Head(origins)
            k == dependencyKey(origin.Name, origin.UID)
            dest == originToDestinationMap(destinations, k)
        IN  IF dest # Nil
            THEN LET destinationKey == dependencyKey(dest[1].Name, dest[1].UID)
                     b == buckets[destinationKey]
                 IN  AttachOrigins(Tail(origins), destinations,
                        [buckets EXCEPT ![destinationKey] =
                            [b EXCEPT !.Ingresses = Append(b.Ingresses, origin),
                                      !.FreeSlots = b.FreeSlots - ingressSlots(origin)]],
                        without)
            ELSE AttachOrigins(Tail(origins), destinations, buckets,
                               Append(without, origin))

\* the order of ingressesWithoutDestination: fewer slots first, then the
\* later CreationTimestamp first
LessBySlots(a, b) ==
    IF ingressSlots(a) # ingressSlots(b) THEN ingressSlots(a) < ingressSlots(b)
    ELSE a.CreationTimestamp > b.CreationTimestamp

\* the order of bucketsWithDestination
LessByName(a, b) == a.Name < b.Name

\* the values of a map in some order (Go iterates a map in no fixed order;
\* the slice is sorted by name right after, and names are distinct)
RECURSIVE MapValues(_)
MapValues(m) ==
    IF DOMAIN m = {} THEN <<>>
    ELSE LET k == CHOOSE x \in DOMAIN m : TRUE
         IN  <<m[k]>> \o MapValues([x \in DOMAIN m \ {k} |-> m[x]])

\* The packing state: the buckets with destination, the buckets without,
\* reuseBucketsWithAddrPos (1-based here, 0 before the first bucket) and
\* currentBucket as <<"with", i>> or <<"without", i>>.
currentFree(st) ==
    IF st.current[1] = "with" THEN st.withDest[st.current[2]].FreeSlots
    ELSE st.withoutDest[st.current[2]].FreeSlots

\* nextBucket without the test of FreeSlots: the next bucket with
\* destination is taken whatever its free slots
nextBucketAny(st, maxServices) ==
    IF st.pos < Len(st.withDest)
    THEN [st EXCEPT !.pos = st.pos + 1, !.current = <<"with", st.pos + 1>>]
    ELSE LET fresh == [Name |-> 0, FreeSlots |-> maxServices,
                       Ingresses |-> <<>>, DestinationIngress |-> Nil]
         IN  [st EXCEPT !.withoutDest = Append(st.withoutDest, fresh),
                        !.current = <<"without", Len(st.withoutDest) + 1>>]

\* nextBucket: advance to the next bucket with destination that has
\* FreeSlots > 0; when there is none left, allocate a bucket without
\* destination
RECURSIVE nextBucket(_, _)
nextBucket(st, maxServices) ==
    IF st.pos < Len(st.withDest)
    THEN LET p == st.pos + 1
             moved == [st EXCEPT !.pos = p, !.current = <<"with", p>>]
         IN  IF st.withDest[p].FreeSlots > 0 THEN moved
             ELSE nextBucket(moved, maxServices)
    ELSE LET fresh == [Name |-> 0, FreeSlots |-> maxServices,
                       Ingresses |-> <<>>, DestinationIngress |-> Nil]
         IN  [st EXCEPT !.withoutDest = Append(st.withoutDest, fresh),
                        !.current = <<"without", Len(st.withoutDest) + 1>>]

\* placeIngress without the decrement of FreeSlots
placeIngressUncounted(st, ingress) ==
    LET i == st.current[2]
    IN  IF st.current[1] = "with"
        THEN [st EXCEPT !.withDest[i].Ingresses = Append(@, ingress)]
        ELSE [st EXCEPT !.withoutDest[i].Ingresses = Append(@, ingress)]

\* currentBucket.Ingresses = append(...); currentBucket.FreeSlots -= slots
placeIngress(st, ingress) ==
    LET slots == ingressSlots(ingress)
        i == st.current[2]
    IN  IF st.current[1] = "with"
        THEN [st EXCEPT !.withDest[i].Ingresses = Append(@, ingress),
                        !.withDest[i].FreeSlots = @ - slots]
        ELSE [st EXCEPT !.withoutDest[i].Ingresses = Append(@, ingress),
                        !.withoutDest[i].FreeSlots = @ - slots]

\* the loop over ingressesWithoutDestination
RECURSIVE PackIngresses(_, _, _)
PackIngresses(st, ingresses, maxServices) ==
    IF ingresses = <<>> THEN st
    ELSE LET ingress == Head(ingresses)
             at == IF currentFree(st) - ingressSlots(ingress) < 0
                   THEN nextBucket(st, maxServices)
                   ELSE st
         IN  PackIngresses(placeIngress(at, ingress), Tail(ingresses), maxServices)

\* GenerateIngressBuckets without the sort of bucketsWithDestination: the
\* buckets with destination in the order of the destinations given
GenerateIngressBucketsUnsorted(origins, destinations, maxServices) ==
    LET attached == AttachOrigins(origins, destinations,
                        bucketsWithDestinationMap(destinations, maxServices), <<>>)
        ingressesWithoutDestination == SortSlice(LessBySlots, attached.without)
        bucketsWithDestination ==
            [i \in 1..Len(destinations) |->
                attached.buckets[dependencyKey(destinations[i].Name, destinations[i].UID)]]
        st0 == [withDest |-> bucketsWithDestination, withoutDest |-> <<>>,
                pos |-> 0, current |-> <<"none", 0>>]
        st1 == IF Len(ingressesWithoutDestination) > 0
               THEN nextBucket(st0, maxServices) ELSE st0
        st2 == PackIngresses(st1, ingressesWithoutDestination, maxServices)
    IN  st2.withDest \o st2.withoutDest

\* GenerateIngressBuckets(origins, destinations, maxServices): the buckets
\* with destination by name, followed by the buckets without destination
GenerateIngressBuckets(origins, destinations, maxServices) ==
    LET attached == AttachOrigins(origins, destinations,
                        bucketsWithDestinationMap(destinations, maxServices), <<>>)
        ingressesWithoutDestination == SortSlice(LessBySlots, attached.without)
        bucketsWithDestination == SortSlice(LessByName, MapValues(attached.buckets))
        st0 == [withDest |-> bucketsWithDestination, withoutDest |-> <<>>,
                pos |-> 0, current |-> <<"none", 0>>]
        st1 == IF Len(ingressesWithoutDestination) > 0
               THEN nextBucket(st0, maxServices) ELSE st0
        st2 == PackIngresses(st1, ingressesWithoutDestination, maxServices)
    IN  st2.withDest \o st2.withoutDest

\* ------------------------------------------------------------------------
\* Objects
\* ------------------------------------------------------------------------

\* metav1.OwnerReference as reconcileIngressBucket writes it
OwnerReference(kind, name, uid) ==
    [APIVersion |-> "networking.k8s.io/v1", Kind |-> kind, Name |-> name, UID |-> uid]

\* networkingv1.IngressRule: the host as its sequence of labels, the paths
\* of rule.HTTP.Paths
IngressRule(host, paths) == [Host |-> host, Paths |-> paths]

\* networkingv1.Ingress, the fields the controller reads or writes
Ingress(name, uid, created, labels, annotations, owners, class, backend, tls, rules, status) ==
    [Namespace |-> "my-namespace",
     Name |-> name,
     UID |-> uid,
     CreationTimestamp |-> created,
     Labels |-> labels,
     Annotations |-> annotations,
     OwnerReferences |-> owners,
     Spec |-> [IngressClassName |-> class, DefaultBackend |-> backend,
               TLS |-> tls, Rules |-> rules],
     Status |-> status]

\* networkingv1.IngressTLS: the hosts, and the secret name as a sequence of
\* its parts ("" is the empty sequence)
IngressTLS(hosts, secretName) == [Hosts |-> hosts, SecretName |-> secretName]

\* the YAML text of a config value: whether it decodes, and what it decodes to
Yaml(valid, value) == [valid |-> valid, value |-> value]

\* yaml.Unmarshal into a nil target: the decoded value, or an error (the
\* caller then resets the target to nil)
yamlUnmarshal(text, zero) ==
    IF text.valid THEN [err |-> FALSE, value |-> text.value]
    ELSE [err |-> TRUE, value |-> zero]

\* corev1.ConfigMap
ConfigMap(name, data) == [Namespace |-> "my-namespace", Name |-> name, Data |-> data]

\* ------------------------------------------------------------------------
\* controller.go: the operator's configuration
\* ------------------------------------------------------------------------

\* r.IngressClass (the flag ingress-class, default "merge")
IngressClass == "merge"

\* r.IngressWatchIgnore
IngressWatchIgnore == {"merge.ingress.kubernetes.io/ignore"}

\* r.IngressMaxSlots
IngressMaxSlots == 2

\* ------------------------------------------------------------------------
\* controller.go: helpers
\* ------------------------------------------------------------------------

\* getIngressClass: spec.ingressClassName when set and not empty, else the
\* class annotation
getIngressClass(ingress) ==
    LET ingressClass == IF ingress.Spec.IngressClassName # Nil
                        THEN ingress.Spec.IngressClassName[1] ELSE ""
    IN  IF ingressClass = "" THEN MapGet(ingress.Annotations, IngressClassAnnotation)
        ELSE ingressClass

\* isIgnored: some annotation of the ignore list exists on the object
isIgnored(obj) == \E val \in IngressWatchIgnore : val \in DOMAIN obj.Annotations

\* strconv.Atoi on the priority strings that occur
Atoi(str) ==
    CASE str = "0" -> [err |-> FALSE, value |-> 0]
      [] str = "1" -> [err |-> FALSE, value |-> 1]
      [] str = "2" -> [err |-> FALSE, value |-> 2]
      [] str = "-1" -> [err |-> FALSE, value |-> -1]
      [] OTHER -> [err |-> TRUE, value |-> 0]

\* hasIngressChanged(old, new)
hasIngressChangedSymmetric(old, new) ==
    \/ new.Namespace # old.Namespace
    \/ new.Name # old.Name
    \/ new.Labels # old.Labels
    \/ new.Annotations # old.Annotations
    \/ new.OwnerReferences # old.OwnerReferences
    \/ new.Spec # old.Spec

hasIngressChanged(old, new) ==
    \/ new.Namespace # old.Namespace
    \/ new.Name # old.Name
    \/ new.Labels # old.Labels
    \/ \E k \in DOMAIN new.Annotations :
          new.Annotations[k] # MapGet(old.Annotations, k)
    \/ new.OwnerReferences # old.OwnerReferences
    \/ new.Spec # old.Spec

\* mergeWildcardDomains: "*." and the host without its leftmost label, for
\* every rule whose host has more than one label
RECURSIVE mergeWildcardDomains(_, _)
mergeWildcardDomains(wildcardDomains, rules) ==
    IF rules = <<>> THEN wildcardDomains
    ELSE LET parts == Head(rules).Host
         IN  IF Len(parts) <= 1
             THEN mergeWildcardDomains(wildcardDomains, Tail(rules))
             ELSE mergeWildcardDomains(wildcardDomains \cup {<<"*">> \o Tail(parts)},
                                       Tail(rules))

\* the orders in which a range over the keys of a Go map may visit them
KeyOrders(keys) ==
    {order \in [1..Cardinality(keys) -> keys] :
        \A i, j \in 1..Cardinality(keys) : order[i] = order[j] => i = j}

\* wildcardTLSEntry: the hosts in the order the map was visited in, the
\* secret named after the destination when the bucket has one
wildcardTLSEntry(hosts, bucket) ==
    IngressTLS(hosts,
               IF bucket.DestinationIngress # Nil
               THEN <<bucket.DestinationIngress[1].Name, wildcardTLSSuffix>>
               ELSE <<>>)

\* the rules loop without the search for the host: r is appended
mergeRuleAppends(rules, r) == Append(rules, r)

\* the rules loop with the append made on a copy of the rule found: the
\* paths of r are lost
mergeRuleOnCopy(rules, r) ==
    IF \E i \in 1..Len(rules) : rules[i].Host = r.Host THEN rules
    ELSE Append(rules, r)

\* the rules loop for one rule r: its paths are appended to the first rule
\* of the same host, or r is appended
mergeRule(rules, r) ==
    LET same == {i \in 1..Len(rules) : rules[i].Host = r.Host}
    IN  IF same # {}
        THEN LET i == CHOOSE x \in same : \A y \in same : x <= y
             IN  [rules EXCEPT ![i].Paths = @ \o r.Paths]
        ELSE Append(rules, r)

RECURSIVE mergeRules(_, _)
mergeRules(rules, more) ==
    IF more = <<>> THEN rules
    ELSE mergeRules(mergeRule(rules, Head(more)), Tail(more))

\* the loop over bucket.Ingresses: owner references, TLS entries (not in
\* wildcard mode), wildcard domains (in wildcard mode) and merged rules
RECURSIVE collectIngresses(_, _, _)
collectIngresses(ingresses, useWildcardTLS, acc) ==
    IF ingresses = <<>> THEN acc
    ELSE LET ingress == Head(ingresses)
         IN  collectIngresses(Tail(ingresses), useWildcardTLS,
                [ownerReferences |->
                    Append(acc.ownerReferences,
                           OwnerReference("Ingress", ingress.Name, ingress.UID)),
                 tls |-> IF useWildcardTLS THEN acc.tls
                         ELSE acc.tls \o ingress.Spec.TLS,
                 wildcardDomains |->
                    IF useWildcardTLS
                    THEN mergeWildcardDomains(acc.wildcardDomains, ingress.Spec.Rules)
                    ELSE acc.wildcardDomains,
                 rules |-> mergeRules(acc.rules, ingress.Spec.Rules)])

\* reconcileIngressBucket without the test of the annotations
abortsNever(configMap) == FALSE

\* whether reconcileIngressBucket returns before building the merged
\* ingress: the config has annotations and they name the watched class
\* (annotations that do not decode are nil, and nil[k] is "")
abortsSelfMerge(configMap) ==
    /\ AnnotationsConfigKey \in DOMAIN configMap.Data
    /\ MapGet(yamlUnmarshal(configMap.Data[AnnotationsConfigKey], EmptyMap).value,
              IngressClassAnnotation) = IngressClass

\* managedAnnotations that leaves the values the config gives for the two keys
managedAnnotationsKeepsGiven(annotations, configMap) ==
    [k \in DOMAIN annotations \cup {FromConfigAnnotation, ResultAnnotation} |->
        IF k \in DOMAIN annotations THEN annotations[k]
        ELSE IF k = FromConfigAnnotation THEN configMap.Name
        ELSE "true"]

\* the annotations of mergedIngress: those decoded from the config, with
\* from-config and result set by the controller
managedAnnotations(annotations, configMap) ==
    MapSet(MapSet(annotations, FromConfigAnnotation, configMap.Name),
           ResultAnnotation, "true")

\* mergedIngress as reconcileIngressBucket builds it before it is named;
\* hosts is the order in which the wildcard domains were visited
mergedIngressOf(configMap, bucket, hosts) ==
    LET useWildcardTLS == MapGet(configMap.Data, UseWildcardTLSKey) = "true"
        acc == collectIngresses(bucket.Ingresses, useWildcardTLS,
                    [ownerReferences |-> <<>>, tls |-> <<>>,
                     wildcardDomains |-> {}, rules |-> <<>>])
        tls == IF useWildcardTLS
               THEN Append(acc.tls, wildcardTLSEntry(hosts, bucket))
               ELSE acc.tls
        labels == IF LabelsConfigKey \in DOMAIN configMap.Data
                  THEN yamlUnmarshal(configMap.Data[LabelsConfigKey], EmptyMap).value
                  ELSE EmptyMap
        decoded == IF AnnotationsConfigKey \in DOMAIN configMap.Data
                   THEN yamlUnmarshal(configMap.Data[AnnotationsConfigKey], EmptyMap).value
                   ELSE EmptyMap
        annotations == managedAnnotations(decoded, configMap)
        backend == IF BackendConfigKey \in DOMAIN configMap.Data
                   THEN yamlUnmarshal(configMap.Data[BackendConfigKey], Nil).value
                   ELSE Nil
        ingressClassName == MapGet(configMap.Data, IngressClassNameKey)
        ingressClassNameRef == IF ingressClassName # "" THEN Ptr(ingressClassName) ELSE Nil
    IN  Ingress(0, 0, 0, labels, annotations, acc.ownerReferences,
                ingressClassNameRef, backend, tls, acc.rules, <<>>)

\* the wildcard domains of a bucket under a config (empty outside wildcard mode)
wildcardDomainsOf(configMap, bucket) ==
    collectIngresses(bucket.Ingresses,
                     MapGet(configMap.Data, UseWildcardTLSKey) = "true",
                     [ownerReferences |-> <<>>, tls |-> <<>>,
                      wildcardDomains |-> {}, rules |-> <<>>]).wildcardDomains

\* ------------------------------------------------------------------------
\* The planner on drawn inputs
\* ------------------------------------------------------------------------

\* the most origins and the largest maxServices drawn
PMaxOrigins == 3
PMaxSlots == 3

\* the names of the destinations drawn
PDestNames == <<101, 102>>

\* what an origin drawn contributes: its paths (one rule) and its creation time
POriginKinds == {<<1, 1>>, <<1, 2>>, <<2, 1>>}

\* an owner reference of the first destination besides the origins drawn: none,
\* one to an Ingress of the name of origin 1 with another uid, or one of
\* another kind with the name and uid of origin 1
PExtras == {"none", "stale", "service"}

POrigin(i, kind) ==
    Ingress(i, i, kind[2], EmptyMap, EmptyMap, <<>>, Nil, Nil, <<>>,
            <<IngressRule(<<"h", "example", "org">>, [p \in 1..kind[1] |-> 10 * i + p])>>,
            <<>>)

RECURSIVE POwners(_, _, _)
POwners(d, own, n) ==
    IF n = 0 THEN <<>>
    ELSE POwners(d, own, n - 1)
         \o (IF d \in own[n] THEN <<OwnerReference("Ingress", n, n)>> ELSE <<>>)

PDestination(d, own, n, extra) ==
    Ingress(PDestNames[d], PDestNames[d], 0, EmptyMap, EmptyMap,
            POwners(d, own, n)
            \o (IF d = 1 /\ extra = "stale" THEN <<OwnerReference("Ingress", 1, 99)>>
                ELSE IF d = 1 /\ extra = "service" THEN <<OwnerReference("Service", 1, 1)>>
                ELSE <<>>),
            Nil, Nil, <<>>, <<>>, <<>>)

VARIABLES
    pIn,     \* the arguments drawn for the function under study
    pDone,   \* whether the function has run on them
    pOut,    \* what it returned
    ingressStore,   \* the Ingress objects of the namespace, by name
    configMapStore,  \* the ConfigMap objects of the namespace, by name
    nextUID,     \* the uid (and creation time) of the next origin created
    usedNames,   \* the names the controller has generated for merged ingresses
    pc,          \* "idle", or "buckets" while a namespace reconcile is under way
    queue,       \* the buckets it has still to reconcile, each with its config
    stale,       \* the objects written by others since the controller listed them
    errors,      \* the errors of the reconcile under way or last finished
    log,         \* the calls to the apiserver of that reconcile
    runs,        \* namespace reconciles finished in a row since the last change by others (at most 2)
    disturbed,   \* whether others have written during the reconcile under way
    writes       \* the writes others have made so far

planVars == <<pIn, pDone, pOut>>

clusterVars == <<ingressStore, configMapStore, nextUID, usedNames>>

ctlVars == <<pc, queue, stale, errors, log, runs, disturbed>>

envVars == <<writes>>

vars == <<pIn, pDone, pOut, ingressStore, configMapStore, nextUID, usedNames,
          pc, queue, stale, errors, log, runs, disturbed, writes>>

\* the names of the configs; g2 is in the namespace from the start and stays
\* as it is, g1 is the one users create, change and delete
ConfigNames == {"g1", "g2"}
StandingConfigs == {"g2"}
WrittenConfigs == {"g1"}

\* the namespace with its standing config and the controller at rest
ControllerInit ==
    /\ ingressStore = EmptyMap
    /\ configMapStore = [g \in StandingConfigs |-> ConfigMap(g, EmptyMap)]
    /\ nextUID = 1
    /\ usedNames = {}
    /\ pc = "idle"
    /\ queue = <<>>
    /\ stale = {}
    /\ errors = <<>>
    /\ log = <<>>
    /\ runs = 0
    /\ disturbed = FALSE
    /\ writes = 0

\* no argument drawn for the planner
PlannerIdle ==
    /\ pIn = [origins |-> <<>>, destinations |-> <<>>, maxServices |-> 0]
    /\ pDone = FALSE
    /\ pOut = <<>>

PlannerInit ==
    /\ \E n \in 0..PMaxOrigins, nd \in 0..Len(PDestNames), m \in 0..PMaxSlots :
       \E kinds \in [1..n -> POriginKinds], own \in [1..n -> SUBSET (1..nd)],
          rev \in BOOLEAN, extra \in PExtras :
          /\ nd < 2 => ~rev
          /\ nd = 0 => extra = "none"
          /\ pIn = [origins |-> [i \in 1..n |-> POrigin(i, kinds[i])],
                    destinations |->
                        [j \in 1..nd |->
                            PDestination(IF rev THEN nd + 1 - j ELSE j, own, n, extra)],
                    maxServices |-> m]
    /\ pDone = FALSE
    /\ pOut = <<>>
    /\ ControllerInit

\* the call GenerateIngressBuckets(origins, destinations, maxServices)
Generate ==
    /\ ~pDone
    /\ pDone' = TRUE
    /\ pOut' = GenerateIngressBuckets(pIn.origins, pIn.destinations, pIn.maxServices)
    /\ UNCHANGED pIn
    /\ UNCHANGED <<clusterVars, ctlVars, envVars>>

PlannerNext == Generate

PlannerSpec == PlannerInit /\ [][PlannerNext]_vars

\* ---- properties of the planner ----

\* the buckets that hold origin o
BucketsOf(buckets, o) ==
    {b \in 1..Len(buckets) : \E i \in 1..Len(buckets[b].Ingresses) : buckets[b].Ingresses[i] = o}

\* the positions, in the destinations drawn, of those that list origin o
ListedBy(o) ==
    {j \in 1..Len(pIn.destinations) :
        \E r \in 1..Len(pIn.destinations[j].OwnerReferences) :
            LET ref == pIn.destinations[j].OwnerReferences[r]
            IN  ref.Kind = "Ingress" /\ ref.Name = o.Name /\ ref.UID = o.UID}

POriginSet == {pIn.origins[i] : i \in 1..Len(pIn.origins)}

\* the sum of the slots of the origins of a bucket that satisfy Keep
RECURSIVE SlotSum(_, _)
SlotSum(Keep(_), ingresses) ==
    IF ingresses = <<>> THEN 0
    ELSE (IF Keep(Head(ingresses)) THEN ingressSlots(Head(ingresses)) ELSE 0)
         + SlotSum(Keep, Tail(ingresses))

\* whether destination d lists origin o among its Ingress-kind owner references
Lists(d, o) ==
    \E r \in 1..Len(d.OwnerReferences) :
        /\ d.OwnerReferences[r].Kind = "Ingress"
        /\ d.OwnerReferences[r].Name = o.Name
        /\ d.OwnerReferences[r].UID = o.UID

\* the places <<bucket, position>> at which origin o stands in the buckets
Places(buckets, o) ==
    {pl \in UNION {{<<b, i>> : i \in 1..Len(buckets[b].Ingresses)} : b \in 1..Len(buckets)} :
        buckets[pl[1]].Ingresses[pl[2]] = o}

Always(o) == TRUE

\* C2 as stated: an origin stands in the bucket of every destination that
\* lists it among its Ingress-kind owner references.
C2_AffinityEveryListing ==
    pDone =>
        \A o \in POriginSet : \A j \in ListedBy(o) :
            \E b \in BucketsOf(pOut, o) :
                pOut[b].DestinationIngress = Ptr(pIn.destinations[j])

\* C2 amended: an origin listed among the Ingress-kind owner references of
\* one or more destinations stands in the bucket of one of them, the last of
\* them in the destinations given, and in no other bucket, whatever the free
\* slots of that bucket.
C2_Affinity ==
    pDone =>
        \A o \in POriginSet :
            ListedBy(o) # {} =>
                LET last == CHOOSE j \in ListedBy(o) : \A k \in ListedBy(o) : k <= j
                IN  /\ BucketsOf(pOut, o) # {}
                    /\ \A b \in BucketsOf(pOut, o) :
                          pOut[b].DestinationIngress = Ptr(pIn.destinations[last])

\* C2 witness: a listed origin stands in the bucket of its destination
\* although that bucket's free slots are negative.
C2_Witness ==
    /\ pDone
    /\ \E o \in POriginSet : \E b \in BucketsOf(pOut, o) :
          /\ ListedBy(o) # {}
          /\ pOut[b].FreeSlots < 0
          /\ pOut[b].DestinationIngress # Nil
          /\ Lists(pOut[b].DestinationIngress[1], o)

\* C3 as stated: when maxSlots >= 1 and no origin has more slots than
\* maxSlots, every bucket whose pre-claimed origins (those its destination
\* lists) do not exceed maxSlots holds origins of at most maxSlots slots.
C3_PackingCapacity ==
    (/\ pDone
     /\ pIn.maxServices >= 1
     /\ \A o \in POriginSet : ingressSlots(o) <= pIn.maxServices)
    => \A b \in 1..Len(pOut) :
          LET PreClaimed(o) == /\ pOut[b].DestinationIngress # Nil
                               /\ Lists(pOut[b].DestinationIngress[1], o)
          IN  SlotSum(PreClaimed, pOut[b].Ingresses) <= pIn.maxServices
                  => SlotSum(Always, pOut[b].Ingresses) <= pIn.maxServices

\* C9: every origin given to the planner stands at exactly one place of the
\* buckets returned.
C9_ExactlyOneBucket ==
    pDone => \A o \in POriginSet : Cardinality(Places(pOut, o)) = 1

\* C9 witness: the planner has placed an origin that two destinations list,
\* next to an origin that none lists.
C9_Witness ==
    /\ pDone
    /\ \E o \in POriginSet : Cardinality(ListedBy(o)) = 2
    /\ \E o \in POriginSet : ListedBy(o) = {}
    /\ Len(pOut) >= 3

\* ------------------------------------------------------------------------
\* controller.go: the namespace reconciler
\* ------------------------------------------------------------------------

\* a call to the apiserver, as the log keeps it: the operation, the ingress
\* it names (0 when none), the config it names or is made for ("" when
\* none), whether it succeeded
Call(op, name, config, ok) == [op |-> op, name |-> name, config |-> config, ok |-> ok]

\* r.Client.List: the ingresses of the namespace, by name
ListIngresses(store) == SortSlice(LessByName, MapValues(store))

\* groupIngresses that ends the loop at an origin it has to skip for its
\* priority or its missing config annotation
RECURSIVE groupIngressesStopsAtSkip(_, _, _)
groupIngressesStopsAtSkip(items, store, acc) ==
    IF items = <<>> THEN acc
    ELSE
        LET ingress == Head(items)
            rest == Tail(items)
            configMapName == ingress.Annotations[ConfigAnnotation]
        IN  IF MapGet(ingress.Annotations, ResultAnnotation) = "true"
            THEN groupIngressesStopsAtSkip(rest, store,
                    [acc EXCEPT !.resultIngresses = Append(@, ingress)])
            ELSE IF getIngressClass(ingress) # IngressClass
            THEN groupIngressesStopsAtSkip(rest, store, acc)
            ELSE IF isIgnored(ingress)
            THEN groupIngressesStopsAtSkip(rest, store, acc)
            ELSE IF /\ PriorityAnnotation \in DOMAIN ingress.Annotations
                    /\ Atoi(ingress.Annotations[PriorityAnnotation]).err
            THEN acc
            ELSE IF ConfigAnnotation \notin DOMAIN ingress.Annotations
            THEN acc
            ELSE IF configMapName \in DOMAIN acc.configMaps
            THEN groupIngressesStopsAtSkip(rest, store,
                    [acc EXCEPT !.mergeMap =
                        MapSetSeq(@, configMapName, ingress)])
            ELSE IF configMapName \notin DOMAIN store
            THEN groupIngressesStopsAtSkip(rest, store,
                    [acc EXCEPT !.calls =
                        Append(@, Call("GetConfigMap", 0, configMapName, FALSE))])
            ELSE groupIngressesStopsAtSkip(rest, store,
                    [acc EXCEPT
                        !.calls = Append(@, Call("GetConfigMap", 0, configMapName, TRUE)),
                        !.configMaps = [g \in DOMAIN @ \cup {configMapName} |->
                                           IF g = configMapName THEN store[configMapName]
                                           ELSE @[g]],
                        !.mergeMap = MapSetSeq(@, configMapName, ingress)])

\* groupIngresses without the test of the result annotation
RECURSIVE groupIngressesAdmitsResults(_, _, _)
groupIngressesAdmitsResults(items, store, acc) ==
    IF items = <<>> THEN acc
    ELSE
        LET ingress == Head(items)
            rest == Tail(items)
            configMapName == ingress.Annotations[ConfigAnnotation]
        IN  IF getIngressClass(ingress) # IngressClass
            THEN groupIngressesAdmitsResults(rest, store, acc)
            ELSE IF isIgnored(ingress)
            THEN groupIngressesAdmitsResults(rest, store, acc)
            ELSE IF /\ PriorityAnnotation \in DOMAIN ingress.Annotations
                    /\ Atoi(ingress.Annotations[PriorityAnnotation]).err
            THEN groupIngressesAdmitsResults(rest, store, acc)
            ELSE IF ConfigAnnotation \notin DOMAIN ingress.Annotations
            THEN groupIngressesAdmitsResults(rest, store, acc)
            ELSE IF configMapName \in DOMAIN acc.configMaps
            THEN groupIngressesAdmitsResults(rest, store,
                    [acc EXCEPT !.mergeMap =
                        MapSetSeq(@, configMapName, ingress)])
            ELSE IF configMapName \notin DOMAIN store
            THEN groupIngressesAdmitsResults(rest, store,
                    [acc EXCEPT !.calls =
                        Append(@, Call("GetConfigMap", 0, configMapName, FALSE))])
            ELSE groupIngressesAdmitsResults(rest, store,
                    [acc EXCEPT
                        !.calls = Append(@, Call("GetConfigMap", 0, configMapName, TRUE)),
                        !.configMaps = [g \in DOMAIN @ \cup {configMapName} |->
                                           IF g = configMapName THEN store[configMapName]
                                           ELSE @[g]],
                        !.mergeMap = MapSetSeq(@, configMapName, ingress)])

\* the loop of reconcileNamespace with a config that is not found taken as an
\* empty config: the origin is kept
RECURSIVE groupIngressesKeepsMissing(_, _, _)
groupIngressesKeepsMissing(items, store, acc) ==
    IF items = <<>> THEN acc
    ELSE
        LET ingress == Head(items)
            rest == Tail(items)
            configMapName == ingress.Annotations[ConfigAnnotation]
        IN  IF MapGet(ingress.Annotations, ResultAnnotation) = "true"
            THEN groupIngressesKeepsMissing(rest, store,
                    [acc EXCEPT !.resultIngresses = Append(@, ingress)])
            ELSE IF getIngressClass(ingress) # IngressClass
            THEN groupIngressesKeepsMissing(rest, store, acc)
            ELSE IF isIgnored(ingress)
            THEN groupIngressesKeepsMissing(rest, store, acc)
            ELSE IF /\ PriorityAnnotation \in DOMAIN ingress.Annotations
                    /\ Atoi(ingress.Annotations[PriorityAnnotation]).err
            THEN groupIngressesKeepsMissing(rest, store, acc)
            ELSE IF ConfigAnnotation \notin DOMAIN ingress.Annotations
            THEN groupIngressesKeepsMissing(rest, store, acc)
            ELSE IF configMapName \in DOMAIN acc.configMaps
            THEN groupIngressesKeepsMissing(rest, store,
                    [acc EXCEPT !.mergeMap =
                        MapSetSeq(@, configMapName, ingress)])
            ELSE IF configMapName \notin DOMAIN store
            THEN groupIngressesKeepsMissing(rest, store,
                    [acc EXCEPT
                        !.calls = Append(@, Call("GetConfigMap", 0, configMapName, FALSE)),
                        !.configMaps = [g \in DOMAIN @ \cup {configMapName} |->
                                           IF g = configMapName
                                           THEN ConfigMap(configMapName, EmptyMap)
                                           ELSE @[g]],
                        !.mergeMap = MapSetSeq(@, configMapName, ingress)])
            ELSE groupIngressesKeepsMissing(rest, store,
                    [acc EXCEPT
                        !.calls = Append(@, Call("GetConfigMap", 0, configMapName, TRUE)),
                        !.configMaps = [g \in DOMAIN @ \cup {configMapName} |->
                                           IF g = configMapName THEN store[configMapName]
                                           ELSE @[g]],
                        !.mergeMap = MapSetSeq(@, configMapName, ingress)])

\* the loop of reconcileNamespace over the items listed: merged ingresses
\* (result = "true") are set aside; an origin is kept when its class is the
\* watched one, it is not ignored, its priority (when it has one) is an
\* integer, it names a config, and that config exists. A config is fetched
\* when it is not in configMaps yet, and kept there when it was found.
RECURSIVE groupIngresses(_, _, _)
groupIngresses(items, store, acc) ==
    IF items = <<>> THEN acc
    ELSE
        LET ingress == Head(items)
            rest == Tail(items)
            configMapName == ingress.Annotations[ConfigAnnotation]
        IN  IF MapGet(ingress.Annotations, ResultAnnotation) = "true"
            THEN groupIngresses(rest, store,
                    [acc EXCEPT !.resultIngresses = Append(@, ingress)])
            ELSE IF getIngressClass(ingress) # IngressClass
            THEN groupIngresses(rest, store, acc)
            ELSE IF isIgnored(ingress)
            THEN groupIngresses(rest, store, acc)
            ELSE IF /\ PriorityAnnotation \in DOMAIN ingress.Annotations
                    /\ Atoi(ingress.Annotations[PriorityAnnotation]).err
            THEN groupIngresses(rest, store, acc)
            ELSE IF ConfigAnnotation \notin DOMAIN ingress.Annotations
            THEN groupIngresses(rest, store, acc)
            ELSE IF configMapName \in DOMAIN acc.configMaps
            THEN groupIngresses(rest, store,
                    [acc EXCEPT !.mergeMap =
                        MapSetSeq(@, configMapName, ingress)])
            ELSE IF configMapName \notin DOMAIN store
            THEN groupIngresses(rest, store,
                    [acc EXCEPT !.calls =
                        Append(@, Call("GetConfigMap", 0, configMapName, FALSE))])
            ELSE groupIngresses(rest, store,
                    [acc EXCEPT
                        !.calls = Append(@, Call("GetConfigMap", 0, configMapName, TRUE)),
                        !.configMaps = [g \in DOMAIN @ \cup {configMapName} |->
                                           IF g = configMapName THEN store[configMapName]
                                           ELSE @[g]],
                        !.mergeMap = MapSetSeq(@, configMapName, ingress)])

\* the order of reconcileConfigMap: the higher priority first (no priority
\* is priority 0), then the smaller name
LessByPriority(a, b) ==
    LET priorityA == IF PriorityAnnotation \in DOMAIN a.Annotations
                     THEN Atoi(a.Annotations[PriorityAnnotation]).value ELSE 0
        priorityB == IF PriorityAnnotation \in DOMAIN b.Annotations
                     THEN Atoi(b.Annotations[PriorityAnnotation]).value ELSE 0
    IN  IF priorityA > priorityB THEN TRUE
        ELSE IF priorityA < priorityB THEN FALSE
        ELSE a.Name < b.Name

\* the buckets reconcileConfigMap walks through
bucketsOfConfigMap(origins, currentResultIngresses) ==
    GenerateIngressBuckets(SortSlice(LessByPriority, origins),
                           currentResultIngresses, IngressMaxSlots)

\* currentResultIngressesOf without the selection: every merged ingress of
\* the listing is a destination of the group
currentResultIngressesAll(resultIngresses, configMapName) == resultIngresses

\* the merged ingresses of the listing that declare from-config = configMapName
currentResultIngressesOf(resultIngresses, configMapName) ==
    SelectSeq(resultIngresses,
              LAMBDA resultIngress :
                  MapGet(resultIngress.Annotations, FromConfigAnnotation) = configMapName)

\* the work of the second loop of reconcileNamespace, for the groups of
\* mergeMap visited in the given order: each group's buckets with its config
RECURSIVE workOf(_, _)
workOf(grouped, order) ==
    IF order = <<>> THEN <<>>
    ELSE LET configMapName == Head(order)
             buckets == bucketsOfConfigMap(
                            grouped.mergeMap[configMapName],
                            currentResultIngressesOf(grouped.resultIngresses, configMapName))
         IN  [i \in 1..Len(buckets) |->
                 [configMap |-> grouped.configMaps[configMapName], bucket |-> buckets[i]]]
             \o workOf(grouped, Tail(order))

\* ------------------------------------------------------------------------
\* controller.go: reconcileIngressBucket
\* ------------------------------------------------------------------------

\* the names the controller may generate for merged ingresses
MaxMerged == 2
MergedNames == 101..(100 + MaxMerged)

\* the loop over bucket.Ingresses after the create or update: an origin whose
\* listed status differs from the merged ingress's gets it through a status
\* update; the update fails when the origin is gone or was written since it
\* was listed, and the loop goes on
\* reflectStatus that also labels the origin it gives the status to
RECURSIVE reflectStatusLabels(_, _, _, _, _)
reflectStatusLabels(origins, status, staleNames, config, acc) ==
    IF origins = <<>> THEN acc
    ELSE
        LET ingress == Head(origins)
            ok == ingress.Name \in DOMAIN acc.store /\ ingress.Name \notin staleNames
        IN  IF ingress.Status = status
            THEN reflectStatusLabels(Tail(origins), status, staleNames, config, acc)
            ELSE reflectStatusLabels(Tail(origins), status, staleNames, config,
                    [store |-> IF ok
                               THEN [acc.store EXCEPT
                                        ![ingress.Name].Status = status,
                                        ![ingress.Name].Labels = [k \in {"merged"} |-> "true"]]
                               ELSE acc.store,
                     calls |-> Append(acc.calls, Call("UpdateStatus", ingress.Name, config, ok))])

\* reflectStatus without the loop: no origin is given the status
reflectStatusNever(origins, status, staleNames, config, acc) == acc

\* reflectStatus that puts its status updates before the calls made so far
RECURSIVE reflectStatusAhead(_, _, _, _, _)
reflectStatusAhead(origins, status, staleNames, config, acc) ==
    IF origins = <<>> THEN acc
    ELSE
        LET ingress == Head(origins)
            ok == ingress.Name \in DOMAIN acc.store /\ ingress.Name \notin staleNames
        IN  IF ingress.Status = status
            THEN reflectStatusAhead(Tail(origins), status, staleNames, config, acc)
            ELSE reflectStatusAhead(Tail(origins), status, staleNames, config,
                    [store |-> IF ok
                               THEN [acc.store EXCEPT ![ingress.Name].Status = status]
                               ELSE acc.store,
                     calls |-> <<Call("UpdateStatus", ingress.Name, config, ok)>> \o acc.calls])

\* reflectStatus that gives up at the first status update that fails
RECURSIVE reflectStatusStopsAtFailure(_, _, _, _, _)
reflectStatusStopsAtFailure(origins, status, staleNames, config, acc) ==
    IF origins = <<>> THEN acc
    ELSE
        LET ingress == Head(origins)
            ok == ingress.Name \in DOMAIN acc.store /\ ingress.Name \notin staleNames
        IN  IF ingress.Status = status
            THEN reflectStatusStopsAtFailure(Tail(origins), status, staleNames, config, acc)
            ELSE IF ~ok
            THEN [store |-> acc.store,
                  calls |-> Append(acc.calls, Call("UpdateStatus", ingress.Name, config, FALSE))]
            ELSE reflectStatusStopsAtFailure(Tail(origins), status, staleNames, config,
                    [store |-> [acc.store EXCEPT ![ingress.Name].Status = status],
                     calls |-> Append(acc.calls, Call("UpdateStatus", ingress.Name, config, TRUE))])

RECURSIVE reflectStatus(_, _, _, _, _)
reflectStatus(origins, status, staleNames, config, acc) ==
    IF origins = <<>> THEN acc
    ELSE
        LET ingress == Head(origins)
            ok == ingress.Name \in DOMAIN acc.store /\ ingress.Name \notin staleNames
        IN  IF ingress.Status = status
            THEN reflectStatus(Tail(origins), status, staleNames, config, acc)
            ELSE reflectStatus(Tail(origins), status, staleNames, config,
                    [store |-> IF ok
                               THEN [acc.store EXCEPT ![ingress.Name].Status = status]
                               ELSE acc.store,
                     calls |-> Append(acc.calls, Call("UpdateStatus", ingress.Name, config, ok))])

\* r.Update as a merge: the annotations of the stored object that the
\* object sent does not have are kept
updatedObjectKeepsAnnotations(existing, mergedIngress) ==
    [existing EXCEPT !.Labels = mergedIngress.Labels,
                     !.Annotations =
                        [k \in DOMAIN existing.Annotations \cup DOMAIN mergedIngress.Annotations |->
                            IF k \in DOMAIN mergedIngress.Annotations
                            THEN mergedIngress.Annotations[k]
                            ELSE existing.Annotations[k]],
                     !.OwnerReferences = mergedIngress.OwnerReferences,
                     !.Spec = mergedIngress.Spec]

\* what r.Update stores: the labels, annotations, owner references and spec
\* sent; the uid, the creation time and the status stay those of the object
updatedObject(existing, mergedIngress) ==
    [existing EXCEPT !.Labels = mergedIngress.Labels,
                     !.Annotations = mergedIngress.Annotations,
                     !.OwnerReferences = mergedIngress.OwnerReferences,
                     !.Spec = mergedIngress.Spec]

\* mergedIngress of a bucket without destination, once named: in wildcard
\* mode the secret of the first TLS entry is named after it
namedIngress(configMap, mergedIngress, name) ==
    LET named == [mergedIngress EXCEPT !.Name = name, !.UID = name]
    IN  IF MapGet(configMap.Data, UseWildcardTLSKey) = "true" /\ Len(named.Spec.TLS) > 0
        THEN [named EXCEPT !.Spec.TLS[1].SecretName = <<name, wildcardTLSSuffix>>]
        ELSE named

\* reconcileIngressBucket on the store: the store after it, the calls it
\* made and the error it returned (none: the empty sequence). hosts is the
\* order in which the wildcard domains were visited and name the name
\* generated when the bucket has no destination.
reconcileIngressBucket(store, staleNames, configMap, bucket, hosts, name) ==
    IF abortsSelfMerge(configMap)
    THEN [store |-> store, calls |-> <<>>, err |-> <<>>]
    ELSE
        LET mergedIngress == mergedIngressOf(configMap, bucket, hosts)
        IN  IF bucket.DestinationIngress = Nil
            THEN LET created == namedIngress(configMap, mergedIngress, name)
                     after == reflectStatus(bucket.Ingresses, created.Status, staleNames,
                                configMap.Name,
                                [store |-> [n \in DOMAIN store \cup {name} |->
                                               IF n = name THEN created ELSE store[n]],
                                 calls |-> <<Call("Create", name, configMap.Name, TRUE)>>])
                 IN  [store |-> after.store, calls |-> after.calls, err |-> <<>>]
            ELSE
                LET destination == bucket.DestinationIngress[1].Name
                    desired == [mergedIngress EXCEPT !.Name = destination]
                IN  IF destination \notin DOMAIN store
                    THEN [store |-> store,
                          calls |-> <<Call("Get", destination, configMap.Name, FALSE)>>,
                          err |-> <<"NotFound">>]
                    ELSE
                        LET existingMergedIngress == store[destination]
                            changed == hasIngressChanged(existingMergedIngress, desired)
                            after == reflectStatus(bucket.Ingresses,
                                        existingMergedIngress.Status, staleNames,
                                        configMap.Name,
                                        [store |-> IF changed
                                                   THEN [store EXCEPT ![destination] =
                                                            updatedObject(existingMergedIngress, desired)]
                                                   ELSE store,
                                         calls |-> <<Call("Get", destination, configMap.Name, TRUE)>>
                                                   \o (IF changed
                                                       THEN <<Call("Update", destination, configMap.Name, TRUE)>>
                                                       ELSE <<>>)])
                        IN  [store |-> after.store, calls |-> after.calls, err |-> <<>>]

\* ------------------------------------------------------------------------
\* The objects users and other controllers write
\* ------------------------------------------------------------------------

\* the names of the origins, the uids handed out, the names of the configs
NumOrigins == 2
MaxUID == 3
OriginNames == 1..NumOrigins

HostA == <<"a", "example", "org">>
HostB == <<"b", "example", "com">>

\* what a user writes for an origin: the class annotation, the config and
\* priority annotations (nil: none), whether it carries an annotation of the
\* ignore list, and whether it has one rule (one slot) or two (two slots)
OriginTemplates ==
    [class : {"merge"}, config : {<<"g1">>}, priority : {Nil},
     ignore : {FALSE}, shape : {1, 2}]
    \cup [class : {"merge"}, config : {<<"g2">>}, priority : {Nil},
          ignore : {FALSE}, shape : {1}]

OriginAnnotations(t) ==
    LET keys == {IngressClassAnnotation}
                \cup (IF t.config # Nil THEN {ConfigAnnotation} ELSE {})
                \cup (IF t.priority # Nil THEN {PriorityAnnotation} ELSE {})
                \cup (IF t.ignore THEN IngressWatchIgnore ELSE {})
    IN  [k \in keys |->
            IF k = IngressClassAnnotation THEN t.class
            ELSE IF k = ConfigAnnotation THEN t.config[1]
            ELSE IF k = PriorityAnnotation THEN t.priority[1]
            ELSE "true"]

OriginRules(n, t) ==
    IF t.shape = 1 THEN <<IngressRule(HostA, <<10 * n + 1>>)>>
    ELSE <<IngressRule(HostA, <<10 * n + 1>>), IngressRule(HostB, <<10 * n + 2>>)>>

OriginTLS(n, t) ==
    IF t.shape = 1 THEN <<>> ELSE <<IngressTLS(<<HostB>>, <<n, "-tls">>)>>

\* the data a user writes for config g1: none; annotations that name the
\* watched class; the watched class as class name; wildcard TLS
ConfigDataG1 ==
    {EmptyMap,
     [k \in {AnnotationsConfigKey} |->
        Yaml(TRUE, [x \in {IngressClassAnnotation} |-> IngressClass])],
     [k \in {IngressClassNameKey} |-> IngressClass],
     [k \in {UseWildcardTLSKey} |-> "true"]}

ConfigData(g) == IF g = "g1" THEN ConfigDataG1 ELSE {EmptyMap}

\* the load-balancer statuses a merged ingress is given
LoadBalancerStatuses == {<<"1.1.8.8">>}

\* the writes others make in a behaviour
MaxWrites == 4

\* a write by a user or another controller to ingress `name` (0: to a
\* config): the run of quiet reconciles ends; a reconcile under way is
\* disturbed and its copy of the object is stale; the record of the last
\* reconcile is dropped when none is under way
OthersWrite(name) ==
    /\ writes < MaxWrites
    /\ writes' = writes + 1
    /\ runs' = 0
    /\ disturbed' = (pc # "idle")
    /\ stale' = IF pc # "idle" /\ name # 0 THEN stale \cup {name} ELSE stale
    /\ log' = IF pc = "idle" THEN <<>> ELSE log
    /\ errors' = IF pc = "idle" THEN <<>> ELSE errors
    /\ UNCHANGED <<pc, queue, usedNames>>

\* a user creates origin n
CreateOrigin(n, t) ==
    /\ n \notin DOMAIN ingressStore
    /\ nextUID <= MaxUID
    /\ ingressStore' =
          [x \in DOMAIN ingressStore \cup {n} |->
              IF x = n
              THEN Ingress(n, nextUID, nextUID, EmptyMap, OriginAnnotations(t), <<>>,
                           Nil, Nil, OriginTLS(n, t), OriginRules(n, t), <<>>)
              ELSE ingressStore[x]]
    /\ nextUID' = nextUID + 1
    /\ OthersWrite(n)
    /\ UNCHANGED <<configMapStore, planVars>>

\* a user changes the annotations and the spec of origin n
UpdateOrigin(n, t) ==
    /\ n \in DOMAIN ingressStore
    /\ ingressStore' =
          [ingressStore EXCEPT ![n].Annotations = OriginAnnotations(t),
                               ![n].Spec.TLS = OriginTLS(n, t),
                               ![n].Spec.Rules = OriginRules(n, t)]
    /\ ingressStore' # ingressStore
    /\ OthersWrite(n)
    /\ UNCHANGED <<configMapStore, nextUID, planVars>>

\* a user deletes origin n
DeleteOrigin(n) ==
    /\ n \in DOMAIN ingressStore
    /\ ingressStore' = [x \in DOMAIN ingressStore \ {n} |-> ingressStore[x]]
    /\ OthersWrite(n)
    /\ UNCHANGED <<configMapStore, nextUID, planVars>>

\* a user creates or changes config g
ApplyConfigMap(g, data) ==
    /\ configMapStore' =
          [x \in DOMAIN configMapStore \cup {g} |->
              IF x = g THEN ConfigMap(g, data) ELSE configMapStore[x]]
    /\ configMapStore' # configMapStore
    /\ OthersWrite(0)
    /\ UNCHANGED <<ingressStore, nextUID, planVars>>

\* a user deletes config g
DeleteConfigMap(g) ==
    /\ g \in DOMAIN configMapStore
    /\ configMapStore' = [x \in DOMAIN configMapStore \ {g} |-> configMapStore[x]]
    /\ OthersWrite(0)
    /\ UNCHANGED <<ingressStore, nextUID, planVars>>

\* the load balancer writes the status of merged ingress d
SetLoadBalancerStatus(d, status) ==
    /\ d \in DOMAIN ingressStore
    /\ MapGet(ingressStore[d].Annotations, ResultAnnotation) = "true"
    /\ ingressStore[d].Status # status
    /\ ingressStore' = [ingressStore EXCEPT ![d].Status = status]
    /\ OthersWrite(d)
    /\ UNCHANGED <<configMapStore, nextUID, planVars>>

\* another controller puts an annotation of its own on merged ingress d
AnnotateMerged(d) ==
    /\ d \in DOMAIN ingressStore
    /\ MapGet(ingressStore[d].Annotations, ResultAnnotation) = "true"
    /\ "external-managed-field-01" \notin DOMAIN ingressStore[d].Annotations
    /\ ingressStore' = [ingressStore EXCEPT ![d].Annotations =
                            MapSet(@, "external-managed-field-01", "t")]
    /\ OthersWrite(d)
    /\ UNCHANGED <<configMapStore, nextUID, planVars>>

\* ------------------------------------------------------------------------
\* controller.go: Reconcile, step by step
\* ------------------------------------------------------------------------

\* the end of a namespace reconcile: one more quiet reconcile unless others
\* wrote meanwhile
Finished(wasDisturbed) ==
    /\ pc' = "idle"
    /\ runs' = IF wasDisturbed THEN 0 ELSE IF runs < 2 THEN runs + 1 ELSE 2
    /\ disturbed' = FALSE

\* dropsRequest that reads the class from the annotation alone
dropsRequestByAnnotation(store, req) ==
    /\ req \in DOMAIN store
    /\ MapGet(store[req].Annotations, ResultAnnotation) # "true"
    /\ MapGet(store[req].Annotations, IngressClassAnnotation) # IngressClass

\* dropsRequest that also drops the request for an object that is gone
dropsRequestMissing(store, req) ==
    \/ req \notin DOMAIN store
    \/ /\ MapGet(store[req].Annotations, ResultAnnotation) # "true"
       /\ getIngressClass(store[req]) # IngressClass

\* the first steps of Reconcile(req): the Get of the object named; the
\* request is dropped when the object is there and is neither a merged
\* ingress nor of the watched class
dropsRequest(store, req) ==
    /\ req \in DOMAIN store
    /\ MapGet(store[req].Annotations, ResultAnnotation) # "true"
    /\ getIngressClass(store[req]) # IngressClass

\* the objects a request may name
RequestNames == OriginNames \cup MergedNames

\* Reconcile(req) up to the first bucket, for a request that is dropped or
\* not: the Get of the object named (logged as get), the return when the request is dropped, and else
\* reconcileNamespace: the List, the Gets of the configs, the groups and
\* their buckets. The groups are visited in the order of a range over
\* mergeMap.
ReconcileGot(get, dropped) ==
    /\ pc = "idle"
    /\ IF dropped
       THEN /\ log' = <<get>>
            /\ errors' = <<>>
            /\ UNCHANGED <<pc, queue, stale, runs, disturbed>>
       ELSE LET grouped == groupIngresses(ListIngresses(ingressStore), configMapStore,
                             [mergeMap |-> EmptyMap, configMaps |-> EmptyMap,
                              resultIngresses |-> <<>>, calls |-> <<>>])
            IN  \E order \in KeyOrders(DOMAIN grouped.mergeMap) :
                  LET work == workOf(grouped, order)
                      fresh == {i \in 1..Len(work) : work[i].bucket.DestinationIngress = Nil}
                  IN  /\ Cardinality(fresh) <= Cardinality(MergedNames \ usedNames)
                      /\ log' = <<get, Call("List", 0, "", TRUE)>>
                                \o grouped.calls
                      /\ errors' = <<>>
                      /\ stale' = {}
                      /\ queue' = work
                      /\ IF work = <<>> THEN Finished(FALSE)
                         ELSE pc' = "buckets" /\ disturbed' = FALSE /\ UNCHANGED runs
    /\ UNCHANGED <<clusterVars, planVars, envVars>>

\* Reconcile(req) with the Get logged without the name of the object: nothing
\* else depends on it
ReconcileRequest(dropped) == ReconcileGot(Call("GetRequest", 0, "", TRUE), dropped)

\* Reconcile(req) for any request
Reconcile ==
    \E dropped \in {dropsRequest(ingressStore, req) : req \in RequestNames} :
        ReconcileRequest(dropped)

\* reconcileIngressBucket for the next bucket of the reconcile under way
ReconcileBucket ==
    /\ pc = "buckets"
    /\ LET configMap == Head(queue).configMap
           bucket == Head(queue).bucket
       IN  \E hosts \in KeyOrders(wildcardDomainsOf(configMap, bucket)),
              name \in IF bucket.DestinationIngress = Nil /\ ~abortsSelfMerge(configMap)
                       THEN MergedNames \ usedNames ELSE {0} :
              LET done == reconcileIngressBucket(ingressStore, stale, configMap,
                                                 bucket, hosts, name)
              IN  /\ ingressStore' = done.store
                  /\ usedNames' = IF name = 0 THEN usedNames ELSE usedNames \cup {name}
                  /\ log' = log \o done.calls
                  /\ errors' = errors \o done.err
    /\ queue' = Tail(queue)
    /\ IF Tail(queue) = <<>> THEN Finished(disturbed)
       ELSE UNCHANGED <<pc, runs, disturbed>>
    /\ UNCHANGED <<configMapStore, nextUID, stale, planVars, envVars>>

Init == ControllerInit /\ PlannerIdle

Next ==
    \/ \E n \in OriginNames, t \in OriginTemplates : CreateOrigin(n, t)
    \/ \E n \in OriginNames, t \in OriginTemplates : UpdateOrigin(n, t)
    \/ \E n \in OriginNames : DeleteOrigin(n)
    \/ \E g \in WrittenConfigs : \E data \in ConfigData(g) : ApplyConfigMap(g, data)
    \/ \E g \in WrittenConfigs : DeleteConfigMap(g)
    \/ \E d \in MergedNames, status \in LoadBalancerStatuses : SetLoadBalancerStatus(d, status)
    \/ \E d \in MergedNames : AnnotateMerged(d)
    \/ Reconcile
    \/ ReconcileBucket

Spec == Init /\ [][Next]_vars

\* ------------------------------------------------------------------------
\* Properties of the reconciler
\* ------------------------------------------------------------------------

\* the calls that write: the create and the update of a merged ingress, the
\* status update of an origin
WriteOps == {"Create", "Update", "UpdateStatus"}

\* the calls of the given operations in the log
CallsOf(ops) == {i \in 1..Len(log) : log[i].op \in ops}

\* two namespace reconciles have finished in a row with no write by others
\* since before the first; the log is that of the second
SecondQuietRunDone == pc = "idle" /\ runs = 2

\* C1: idempotence. After one complete reconcile of the namespace, a second
\* reconcile with no change by others in between issues no write: no
\* Create, no Update of a merged ingress, no status update of an origin.
C1_Idempotence == SecondQuietRunDone => CallsOf(WriteOps) = {}

\* the config's annotations decode and give the ingress-class annotation
\* the watched class
NamesWatchedClass(configMap) ==
    /\ AnnotationsConfigKey \in DOMAIN configMap.Data
    /\ configMap.Data[AnnotationsConfigKey].valid
    /\ IngressClassAnnotation \in DOMAIN configMap.Data[AnnotationsConfigKey].value
    /\ configMap.Data[AnnotationsConfigKey].value[IngressClassAnnotation] = IngressClass

\* a step of reconcileIngressBucket: the bucket and the config it was for,
\* the calls it made
BucketStep == pc = "buckets" /\ queue' = Tail(queue)
StepBucket == Head(queue).bucket
StepConfig == Head(queue).configMap
StepCalls == SubSeq(log', Len(log) + 1, Len(log'))

\* the status of the bucket's merged ingress as the step reads it: that of
\* the stored destination, or the empty status of the ingress just created
StepStatusRead ==
    IF StepBucket.DestinationIngress # Nil
    THEN IF StepBucket.DestinationIngress[1].Name \in DOMAIN ingressStore
         THEN ingressStore[StepBucket.DestinationIngress[1].Name].Status
         ELSE <<>>
    ELSE <<>>

\* the origins of the step's bucket hold, where they are still stored, the
\* status read, and those that were sent a status update differed from it
StepReflectsStatus ==
    \A i \in 1..Len(StepBucket.Ingresses) :
        LET origin == StepBucket.Ingresses[i]
        IN  /\ (/\ origin.Name \in DOMAIN ingressStore'
                /\ ingressStore'[origin.Name].UID = origin.UID)
               => ingressStore'[origin.Name].Status = StepStatusRead
            /\ (\E c \in 1..Len(StepCalls) :
                    StepCalls[c].op = "UpdateStatus" /\ StepCalls[c].name = origin.Name)
               => origin.Status # StepStatusRead

StepCallsSucceed == \A c \in 1..Len(StepCalls) : StepCalls[c].ok

\* C4 as stated: after the reconcile of a bucket in which every call
\* succeeded, every origin of the bucket has the status of the bucket's
\* merged ingress as read, and only origins whose status differed were sent
\* a status update.
C4_StatusPropagationEveryBucket ==
    [][(BucketStep /\ StepCallsSucceed) => StepReflectsStatus]_vars

\* C4, amended: the same for every bucket whose config does not name the
\* watched class in its annotations (the reconcile of such a bucket is
\* abandoned before any call is made).
C4_StatusPropagation ==
    [][(BucketStep /\ StepCallsSucceed /\ ~NamesWatchedClass(StepConfig))
          => StepReflectsStatus]_vars

\* an origin was sent the load-balancer status of its merged ingress and
\* holds it
C4_Witness ==
    \E c \in CallsOf({"UpdateStatus"}) :
        /\ log[c].ok
        /\ log[c].name \in DOMAIN ingressStore
        /\ ingressStore[log[c].name].Status # <<>>
        /\ \E d \in MergedNames \cap DOMAIN ingressStore :
              ingressStore[d].Status = ingressStore[log[c].name].Status

\* C7: self-merge prevention. When the annotations of the config name the
\* watched class, the reconcile of a bucket of that config issues no Create
\* and no Update (no call at all), changes no object and adds no error.
C7_SelfMergePrevention ==
    [][(BucketStep /\ NamesWatchedClass(StepConfig))
          => /\ StepCalls = <<>>
             /\ ingressStore' = ingressStore
             /\ errors' = errors]_vars

\* a reconcile has finished, undisturbed, for origins whose config names
\* the watched class: the config was read, nothing was written
C7_Witness ==
    /\ pc = "idle" /\ runs >= 1
    /\ "g1" \in DOMAIN configMapStore
    /\ NamesWatchedClass(configMapStore["g1"])
    /\ \E c \in CallsOf({"GetConfigMap"}) : log[c].config = "g1" /\ log[c].ok
    /\ \E n \in OriginNames \cap DOMAIN ingressStore :
          MapGet(ingressStore[n].Annotations, ConfigAnnotation) = "g1"
    /\ CallsOf(WriteOps) = {}
    /\ errors = <<>>

\* the merged ingresses stored
StoredMerged ==
    {d \in DOMAIN ingressStore :
        MapGet(ingressStore[d].Annotations, ResultAnnotation) = "true"}

\* C8: no merged ingress has the watched class, neither as its
\* ingress-class annotation nor as spec.ingressClassName.
C8_NeverWatchedClass ==
    \A d \in StoredMerged :
        /\ MapGet(ingressStore[d].Annotations, IngressClassAnnotation) # IngressClass
        /\ ingressStore[d].Spec.IngressClassName # Ptr(IngressClass)

\* the origins stored that reconcileNamespace admits and that name config g
AdmittedOrigins(g) ==
    {n \in DOMAIN ingressStore \ StoredMerged :
        /\ getIngressClass(ingressStore[n]) = IngressClass
        /\ ~isIgnored(ingressStore[n])
        /\ PriorityAnnotation \in DOMAIN ingressStore[n].Annotations
              => ~Atoi(ingressStore[n].Annotations[PriorityAnnotation]).err
        /\ ConfigAnnotation \in DOMAIN ingressStore[n].Annotations
        /\ ingressStore[n].Annotations[ConfigAnnotation] = g}

\* the configs that admitted origins name and that are not in the namespace
MissingConfigs ==
    {g \in ConfigNames \ DOMAIN configMapStore : AdmittedOrigins(g) # {}}

\* origin n is owned by a merged ingress made from config g
MergedFrom(g, n) ==
    \E d \in StoredMerged :
        /\ MapGet(ingressStore[d].Annotations, FromConfigAnnotation) = g
        /\ \E i \in 1..Len(ingressStore[d].OwnerReferences) :
              ingressStore[d].OwnerReferences[i] =
                  OwnerReference("Ingress", n, ingressStore[n].UID)

\* C10: config absent. After a reconcile (undisturbed) of a namespace where
\* an admitted origin names a config that does not exist: no error is
\* returned; no call but the Get of the config was made for that group (no
\* Create, no Update, no status update); and every admitted origin of a
\* group whose config exists (and does not name the watched class) is owned
\* by a merged ingress of its config.
C10_ConfigAbsent ==
    (pc = "idle" /\ runs >= 1 /\ MissingConfigs # {}) =>
        /\ errors = <<>>
        /\ \A g \in MissingConfigs :
              \A c \in 1..Len(log) :
                  log[c].config = g => log[c].op = "GetConfigMap" /\ ~log[c].ok
        /\ \A g \in DOMAIN configMapStore :
              ~NamesWatchedClass(configMapStore[g]) =>
                  \A n \in AdmittedOrigins(g) : MergedFrom(g, n)

\* a reconcile has finished where config g1 is missing for one origin and
\* the other origin, of config g2, was given a merged ingress
C10_Witness ==
    /\ pc = "idle" /\ runs >= 1
    /\ "g1" \in MissingConfigs
    /\ AdmittedOrigins("g2") # {}
    /\ \E c \in CallsOf({"Create"}) : log[c].config = "g2"
    /\ \E c \in CallsOf({"GetConfigMap"}) : log[c].config = "g1" /\ ~log[c].ok

\* ------------------------------------------------------------------------
\* The merge of the rules on drawn buckets
\* ------------------------------------------------------------------------

\* the most origins of a drawn bucket
MMaxOrigins == 3

\* the rule lists drawn for an origin: none, one host, the same path twice,
\* two hosts, the same host twice
MRuleLists ==
    {<<>>,
     <<IngressRule(HostA, <<1>>)>>,
     <<IngressRule(HostA, <<1, 1>>)>>,
     <<IngressRule(HostB, <<2>>)>>,
     <<IngressRule(HostA, <<1>>), IngressRule(HostB, <<2>>)>>,
     <<IngressRule(HostA, <<1>>), IngressRule(HostA, <<2>>)>>,
     <<IngressRule(HostB, <<1>>), IngressRule(HostA, <<2>>)>>}

MOrigin(i, rules) ==
    Ingress(i, i, i, EmptyMap,
            [k \in {IngressClassAnnotation, ConfigAnnotation} |->
                IF k = IngressClassAnnotation THEN IngressClass ELSE "g1"],
            <<>>, Nil, Nil, <<>>, rules, <<>>)

MergeInit ==
    /\ \E n \in 0..MMaxOrigins, wildcard \in BOOLEAN :
       \E lists \in [1..n -> MRuleLists] :
          pIn = [configMap |-> ConfigMap("g1", IF wildcard
                                               THEN [k \in {UseWildcardTLSKey} |-> "true"]
                                               ELSE EmptyMap),
                 bucket |-> [Name |-> 0, FreeSlots |-> 0,
                             Ingresses |-> [i \in 1..n |-> MOrigin(i, lists[i])],
                             DestinationIngress |-> Nil]]
    /\ pDone = FALSE
    /\ pOut = <<>>
    /\ ControllerInit

\* reconcileIngressBucket up to mergedIngress, on the drawn bucket
Merge ==
    /\ ~pDone
    /\ pDone' = TRUE
    /\ \E hosts \in KeyOrders(wildcardDomainsOf(pIn.configMap, pIn.bucket)) :
          pOut' = mergedIngressOf(pIn.configMap, pIn.bucket, hosts)
    /\ UNCHANGED pIn
    /\ UNCHANGED <<clusterVars, ctlVars, envVars>>

MergeNext == Merge

MergeSpec == MergeInit /\ [][MergeNext]_vars

\* the rules of the origins of a bucket, in bucket order
RECURSIVE RulesOf(_)
RulesOf(ingresses) ==
    IF ingresses = <<>> THEN <<>>
    ELSE Head(ingresses).Spec.Rules \o RulesOf(Tail(ingresses))

\* the paths of the rules for host h, one rule after the other
RECURSIVE PathsFor(_, _)
PathsFor(h, rules) ==
    IF rules = <<>> THEN <<>>
    ELSE (IF Head(rules).Host = h THEN Head(rules).Paths ELSE <<>>)
         \o PathsFor(h, Tail(rules))

HostsOf(rules) == {rules[i].Host : i \in 1..Len(rules)}

\* C5: merge of rules by host. The merged ingress has exactly one rule for
\* every host that origins of the bucket have rules for, and no other rule;
\* the paths of that rule are the paths of the origins' rules for the host,
\* in bucket order, none dropped: for two origins O1 before O2 with one
\* rule each for the host, O1's paths followed by O2's.
C5_MergeByHost ==
    pDone =>
        LET given == RulesOf(pIn.bucket.Ingresses)
            merged == pOut.Spec.Rules
        IN  /\ HostsOf(merged) = HostsOf(given)
            /\ \A h \in HostsOf(given) :
                  /\ Cardinality({i \in 1..Len(merged) : merged[i].Host = h}) = 1
                  /\ \A i \in 1..Len(merged) :
                        merged[i].Host = h => merged[i].Paths = PathsFor(h, given)

\* two origins with one rule each for the same host, the same path in both:
\* the merged rule has the first origin's paths, then the second's
C5_Witness ==
    /\ pDone
    /\ Len(pIn.bucket.Ingresses) = 2
    /\ pIn.bucket.Ingresses[1].Spec.Rules = <<IngressRule(HostA, <<1, 1>>)>>
    /\ pIn.bucket.Ingresses[2].Spec.Rules = <<IngressRule(HostA, <<1>>)>>
    /\ pOut.Spec.Rules = <<IngressRule(HostA, <<1, 1, 1>>)>>

\* ------------------------------------------------------------------------
\* hasIngressChanged on drawn pairs
\* ------------------------------------------------------------------------

\* the annotations drawn: every map of a subset of two keys to "", "x" or "y"
DAnnotationKeys == {"a", "b"}
DAnnotationValues == {"", "x", "y"}
DAnnotations ==
    UNION {[keys -> DAnnotationValues] : keys \in SUBSET DAnnotationKeys}

\* the annotation another controller puts on the live object
DForeignKey == "external-managed-field-01"

DIngress(annotations, labelled) ==
    Ingress(101, 0, 0, IF labelled THEN [k \in {"k"} |-> "v"] ELSE EmptyMap,
            annotations, <<>>, Nil, Nil, <<>>, <<>>, <<>>)

\* a live and a desired merged ingress; before is the live one as drawn
DiffInit ==
    /\ \E live, desired \in DAnnotations, liveLabelled, desiredLabelled \in BOOLEAN :
          pIn = [before |-> DIngress(live, liveLabelled),
                 old |-> DIngress(live, liveLabelled),
                 new |-> DIngress(desired, desiredLabelled)]
    /\ pDone = FALSE
    /\ pOut = FALSE
    /\ ControllerInit

\* another controller puts its annotation on the live object
AnnotateLive ==
    /\ ~pDone
    /\ DForeignKey \notin DOMAIN pIn.old.Annotations
    /\ pIn' = [pIn EXCEPT !.old.Annotations = MapSet(@, DForeignKey, "t")]
    /\ UNCHANGED <<pDone, pOut>>
    /\ UNCHANGED <<clusterVars, ctlVars, envVars>>

\* the call hasIngressChanged(old, new)
Diff ==
    /\ ~pDone
    /\ pDone' = TRUE
    /\ pOut' = hasIngressChanged(pIn.old, pIn.new)
    /\ UNCHANGED pIn
    /\ UNCHANGED <<clusterVars, ctlVars, envVars>>

DiffNext == AnnotateLive \/ Diff

DiffSpec == DiffInit /\ [][DiffNext]_vars

\* some key of the desired annotations has another value on the live object
\* (a key the live object lacks reads as "")
DesiredAnnotationDiffers(live, desired) ==
    \E k \in DOMAIN desired.Annotations :
        desired.Annotations[k] #
            (IF k \in DOMAIN live.Annotations THEN live.Annotations[k] ELSE "")

\* C6: asymmetric annotation diff. With everything but the annotations
\* alike, hasIngressChanged(live, desired) is true iff some key of the
\* desired annotations has another value on the live object; an annotation
\* only the live object has never makes it true, so the result is that for
\* the live object before the annotation was put on it.
C6_AsymmetricAnnotationDiff ==
    (pDone /\ pIn.old.Labels = pIn.new.Labels) =>
        /\ pOut = DesiredAnnotationDiffers(pIn.old, pIn.new)
        /\ pOut = DesiredAnnotationDiffers(pIn.before, pIn.new)

\* the live object was given an annotation the desired one lacks, differs
\* in nothing else, and no change is reported
C6_Witness ==
    /\ pDone
    /\ pIn.old # pIn.before
    /\ DOMAIN pIn.new.Annotations # {}
    /\ pIn.before.Annotations = pIn.new.Annotations
    /\ pIn.old.Labels = pIn.new.Labels
    /\ pOut = FALSE

\* ------------------------------------------------------------------------
\* More properties of the planner
\* ------------------------------------------------------------------------

\* the planner was given no destination and one or more origins of one slot
\* each, with maxServices >= 1
OnlyNewUnitOrigins ==
    /\ pDone
    /\ pIn.destinations = <<>>
    /\ Len(pIn.origins) >= 1
    /\ pIn.maxServices >= 1
    /\ \A o \in POriginSet : ingressSlots(o) = 1

\* C11: overflow. With no destination, n >= 1 origins of one slot each and
\* maxSlots >= 1, the planner returns exactly ceil(n / maxSlots) buckets,
\* each of at most maxSlots origins, that hold every origin exactly once.
C11_Overflow ==
    OnlyNewUnitOrigins =>
        /\ Len(pOut) = (Len(pIn.origins) + pIn.maxServices - 1) \div pIn.maxServices
        /\ \A b \in 1..Len(pOut) : Len(pOut[b].Ingresses) <= pIn.maxServices
        /\ \A o \in POriginSet : Cardinality(Places(pOut, o)) = 1

\* three origins of one slot with maxSlots 2: two buckets, of two origins
\* and of one
C11_Witness ==
    /\ OnlyNewUnitOrigins
    /\ Len(pIn.origins) = 3
    /\ pIn.maxServices = 2
    /\ Len(pOut) = 2
    /\ Len(pOut[1].Ingresses) = 2
    /\ Len(pOut[2].Ingresses) = 1

\* ------------------------------------------------------------------------
\* One origin added to a reconciled namespace
\* ------------------------------------------------------------------------

\* the origin added
NewOrigin == NumOrigins + 1

\* origin n as a user wrote it at time created
OriginObject(n, t, created) ==
    Ingress(n, created, created, EmptyMap, OriginAnnotations(t), <<>>,
            Nil, Nil, OriginTLS(n, t), OriginRules(n, t), <<>>)

\* a namespace with the two configs and origins 1 and 2, created in either
\* order, not reconciled yet
StabilityInit ==
    /\ \E t1, t2 \in OriginTemplates, first \in {1, 2}, data \in ConfigDataG1 :
          /\ ingressStore =
                [n \in {1, 2} |->
                    OriginObject(n, IF n = 1 THEN t1 ELSE t2, IF n = first THEN 1 ELSE 2)]
          /\ configMapStore =
                [g \in ConfigNames |-> ConfigMap(g, IF g = "g1" THEN data ELSE EmptyMap)]
    /\ nextUID = 3
    /\ usedNames = {}
    /\ pc = "idle"
    /\ queue = <<>>
    /\ stale = {}
    /\ errors = <<>>
    /\ log = <<>>
    /\ runs = 0
    /\ disturbed = FALSE
    /\ writes = 0
    /\ PlannerIdle

\* a user creates the new origin once the namespace has been reconciled
AddOrigin(t) ==
    /\ pc = "idle"
    /\ runs >= 1
    /\ CreateOrigin(NewOrigin, t)

StabilityNext ==
    \/ \E t \in OriginTemplates : AddOrigin(t)
    \/ Reconcile
    \/ ReconcileBucket

StabilitySpec == StabilityInit /\ [][StabilityNext]_vars

\* the owner references reconcileIngressBucket writes for a list of origins
OwnerReferencesOf(origins) ==
    [i \in 1..Len(origins) |->
        OwnerReference("Ingress", origins[i].Name, origins[i].UID)]

\* the step reconciles a bucket with a destination and without the new
\* origin, after the new origin was added
StepOfOldBucket ==
    /\ BucketStep
    /\ NewOrigin \in DOMAIN ingressStore
    /\ StepBucket.DestinationIngress # Nil
    /\ \A i \in 1..Len(StepBucket.Ingresses) : StepBucket.Ingresses[i].Name # NewOrigin

\* C12: stability under re-reconcile. After a complete reconcile, once one
\* admitted origin is added and the namespace is reconciled again, a bucket
\* that does not hold the new origin has its members in the order the
\* destination was written with, and the destination receives no Update.
C12_Stability ==
    [][StepOfOldBucket =>
          /\ StepBucket.DestinationIngress[1].OwnerReferences
                = OwnerReferencesOf(StepBucket.Ingresses)
          /\ \A c \in 1..Len(StepCalls) : StepCalls[c].op # "Update"]_vars

\* ------------------------------------------------------------------------
\* More properties of the reconciler
\* ------------------------------------------------------------------------

\* a step of the controller (every write of others is counted)
ControllerStep == writes' = writes

\* the calls the step added to the log (the log starts anew with Reconcile)
NewCalls == IF pc = "idle" THEN log' ELSE StepCalls

\* C13: frame of the controller's writes. A step of the controller deletes
\* no object, writes no config, and leaves every origin as it was but for
\* its status; its calls are reads, the Create and Update of merged
\* ingresses, and status updates of origins.
C13_WriteFrame ==
    [][ControllerStep =>
          /\ configMapStore' = configMapStore
          /\ DOMAIN ingressStore \subseteq DOMAIN ingressStore'
          /\ \A n \in DOMAIN ingressStore \ StoredMerged :
                [ingressStore'[n] EXCEPT !.Status = ingressStore[n].Status] = ingressStore[n]
          /\ \A c \in 1..Len(NewCalls) :
                /\ NewCalls[c].op \in {"GetRequest", "List", "GetConfigMap", "Get",
                                        "Create", "Update", "UpdateStatus"}
                /\ NewCalls[c].op \in {"Create", "Update"} => NewCalls[c].name \in MergedNames
                /\ NewCalls[c].op = "UpdateStatus" => NewCalls[c].name \notin MergedNames]_vars

\* a reconcile has updated a merged ingress and the status of an origin
C13_Witness ==
    /\ pc = "idle"
    /\ \E c \in CallsOf({"Update"}) : log[c].ok
    /\ \E c \in CallsOf({"UpdateStatus"}) :
          /\ log[c].ok
          /\ log[c].name \in DOMAIN ingressStore
          /\ ingressStore[log[c].name].Status # <<>>

\* the order of strings on the labels the hosts are made of
LabelRank(label) ==
    CASE label = "*" -> 0
      [] label = "a" -> 1
      [] label = "b" -> 2
      [] label = "com" -> 3
      [] label = "example" -> 4
      [] label = "org" -> 5
      [] OTHER -> 6

\* x sorts before y: the order of the dotted names, label by label
RECURSIVE HostBefore(_, _)
HostBefore(x, y) ==
    IF y = <<>> THEN FALSE
    ELSE IF x = <<>> THEN TRUE
    ELSE IF LabelRank(Head(x)) # LabelRank(Head(y))
         THEN LabelRank(Head(x)) < LabelRank(Head(y))
    ELSE HostBefore(Tail(x), Tail(y))

\* the wildcard domains of the rule hosts of a bucket: "*." and the host
\* without its leftmost label
WildcardsOf(bucket) ==
    {<<"*">> \o Tail(h) : h \in {g \in HostsOf(RulesOf(bucket.Ingresses)) : Len(g) > 1}}

\* the merged ingresses the step created or updated
StepWritten ==
    {StepCalls[c].name : c \in {x \in 1..Len(StepCalls) : StepCalls[x].op \in {"Create", "Update"}}}

\* the merged ingress has one TLS entry, for the wildcard domains of the
\* bucket, each once, with the secret named after the ingress
WildcardEntryOf(merged, bucket) ==
    /\ Len(merged.Spec.TLS) = 1
    /\ {merged.Spec.TLS[1].Hosts[i] : i \in 1..Len(merged.Spec.TLS[1].Hosts)} = WildcardsOf(bucket)
    /\ Len(merged.Spec.TLS[1].Hosts) = Cardinality(WildcardsOf(bucket))
    /\ merged.Spec.TLS[1].SecretName = <<merged.Name, wildcardTLSSuffix>>

\* the hosts of the first TLS entry are in ascending order
WildcardHostsSorted(merged) ==
    \A i, j \in 1..Len(merged.Spec.TLS[1].Hosts) :
        i < j => HostBefore(merged.Spec.TLS[1].Hosts[i], merged.Spec.TLS[1].Hosts[j])

\* C14: wildcard TLS. A merged ingress created or updated for a config with
\* use-wildcard-tls = "true" has exactly one TLS entry (the origins' own
\* entries are not copied); its hosts are the wildcard domains of the rule
\* hosts of the bucket, sorted and each once; its secret is the name of the
\* merged ingress followed by "-wildcard-tls".
C14_WildcardTLS ==
    [][(BucketStep /\ MapGet(StepConfig.Data, UseWildcardTLSKey) = "true") =>
          \A d \in StepWritten :
              /\ WildcardEntryOf(ingressStore'[d], StepBucket)
              /\ WildcardHostsSorted(ingressStore'[d])]_vars

\* C14 without the order of the hosts
C14_WildcardTLSAnyOrder ==
    [][(BucketStep /\ MapGet(StepConfig.Data, UseWildcardTLSKey) = "true") =>
          \A d \in StepWritten : WildcardEntryOf(ingressStore'[d], StepBucket)]_vars

\* the config key and the selector the test of wildcard TLS gives, and the
\* label the selector matches
UseWildcardTLSIgnoreKey == "use-wildcard-tls-ignore"

IgnoreSelector == "test-ignore=true"

IgnoreLabels == [k \in {"test-ignore"} |-> "true"]

\* origin i with the given labels and rules
LabelledOrigin(i, labels, rules) ==
    Ingress(i, i, i, labels,
            [k \in {IngressClassAnnotation, ConfigAnnotation} |->
                IF k = IngressClassAnnotation THEN IngressClass ELSE "g1"],
            <<>>, Nil, Nil, <<>>, rules, <<>>)

IMaxOrigins == 2

\* a bucket of labelled origins under a wildcard config that may carry the
\* ignore selector
IgnoreInit ==
    /\ \E n \in 1..IMaxOrigins, selects \in BOOLEAN :
       \E lists \in [1..n -> MRuleLists], labels \in [1..n -> {EmptyMap, IgnoreLabels}] :
          pIn = [configMap |->
                    ConfigMap("g1",
                        IF selects
                        THEN [k \in {UseWildcardTLSKey, UseWildcardTLSIgnoreKey} |->
                                 IF k = UseWildcardTLSKey THEN "true" ELSE IgnoreSelector]
                        ELSE [k \in {UseWildcardTLSKey} |-> "true"]),
                 bucket |-> [Name |-> 0, FreeSlots |-> 0,
                             Ingresses |-> [i \in 1..n |-> LabelledOrigin(i, labels[i], lists[i])],
                             DestinationIngress |-> Nil]]
    /\ pDone = FALSE
    /\ pOut = <<>>
    /\ ControllerInit

IgnoreNext == Merge

IgnoreSpec == IgnoreInit /\ [][IgnoreNext]_vars

\* the origins of a bucket the selector of the config does not match
RECURSIVE Unselected(_)
Unselected(ingresses) ==
    IF ingresses = <<>> THEN <<>>
    ELSE (IF Head(ingresses).Labels = IgnoreLabels THEN <<>> ELSE <<Head(ingresses)>>)
         \o Unselected(Tail(ingresses))

\* C15: wildcard TLS ignore. Under a wildcard config whose key
\* use-wildcard-tls-ignore holds a selector, the hosts of the TLS entry are
\* the wildcard domains of the origins the selector does not match, while
\* the rules of every origin are merged.
C15_WildcardIgnore ==
    (pDone /\ MapGet(pIn.configMap.Data, UseWildcardTLSIgnoreKey) = IgnoreSelector) =>
        /\ Len(pOut.Spec.TLS) = 1
        /\ {pOut.Spec.TLS[1].Hosts[i] : i \in 1..Len(pOut.Spec.TLS[1].Hosts)}
              = {<<"*">> \o Tail(h) :
                    h \in {g \in HostsOf(RulesOf(Unselected(pIn.bucket.Ingresses))) : Len(g) > 1}}
        /\ HostsOf(pOut.Spec.Rules) = HostsOf(RulesOf(pIn.bucket.Ingresses))

\* origins of the watched class under config g1 with no priority or
\* priority 1 or 2, of one or two rules
PriorityTemplates ==
    [class : {"merge"}, config : {<<"g1">>}, priority : {Nil, <<"1">>, <<"2">>},
     ignore : {FALSE}, shape : {1, 2}]

\* a namespace with the two configs and origins 1 and 2 of drawn
\* priorities, created in either order, not reconciled yet
PriorityInit ==
    /\ \E t1, t2 \in PriorityTemplates, first \in {1, 2} :
          ingressStore =
             [n \in {1, 2} |->
                 OriginObject(n, IF n = 1 THEN t1 ELSE t2, IF n = first THEN 1 ELSE 2)]
    /\ configMapStore = [g \in ConfigNames |-> ConfigMap(g, EmptyMap)]
    /\ nextUID = 3
    /\ usedNames = {}
    /\ pc = "idle"
    /\ queue = <<>>
    /\ stale = {}
    /\ errors = <<>>
    /\ log = <<>>
    /\ runs = 0
    /\ disturbed = FALSE
    /\ writes = 0
    /\ PlannerIdle

PriorityNext ==
    \/ Reconcile
    \/ ReconcileBucket

PrioritySpec == PriorityInit /\ [][PriorityNext]_vars

\* the members of a bucket by priority descending, then name ascending
ByPriority(bucket) == SortSlice(LessByPriority, bucket.Ingresses)

\* C16: priority ordering. A merged ingress, when it is created and whenever
\* it is updated, has the owner references of the origins of its bucket in
\* order of priority descending, then name ascending, and the paths of its
\* rule for a host are those of the origins' rules in that order.
C16_PriorityOrder ==
    [][BucketStep =>
          \A d \in StepWritten :
              /\ ingressStore'[d].OwnerReferences = OwnerReferencesOf(ByPriority(StepBucket))
              /\ \A i \in 1..Len(ingressStore'[d].Spec.Rules) :
                    ingressStore'[d].Spec.Rules[i].Paths
                       = PathsFor(ingressStore'[d].Spec.Rules[i].Host,
                                  RulesOf(ByPriority(StepBucket)))]_vars

\* the Get of the object a request names, with the error it returned
\* ("": none)
RequestGet(name, err) ==
    [op |-> "GetRequest", name |-> name, config |-> "", ok |-> err = "", err |-> err]

\* what a user writes for an object of the namespace: the class annotation,
\* spec.ingressClassName (nil, empty or a class), and whether the object is
\* an origin, carries result = "true", or carries it with from-config = g1
\* and a load-balancer status
RouterTemplates ==
    [class : {"merge", "other"},
     className : {Nil, Ptr(""), Ptr("merge"), Ptr("other")},
     kind : {"origin", "result", "resultFrom"}]

RouterObject(n, t) ==
    LET keys == {IngressClassAnnotation, ConfigAnnotation}
                \cup (IF t.kind # "origin" THEN {ResultAnnotation} ELSE {})
                \cup (IF t.kind = "resultFrom" THEN {FromConfigAnnotation} ELSE {})
    IN  Ingress(n, n, n, EmptyMap,
                [k \in keys |->
                    IF k = IngressClassAnnotation THEN t.class
                    ELSE IF k = ResultAnnotation THEN "true"
                    ELSE "g1"],
                <<>>, t.className, Nil, <<>>,
                <<IngressRule(HostA, <<10 * n + 1>>)>>,
                IF t.kind = "resultFrom" THEN CHOOSE status \in LoadBalancerStatuses : TRUE
                ELSE <<>>)

\* a namespace with the two configs and object 1, or objects 1 and 2
RouterInit ==
    /\ \E names \in {{1}, {1, 2}} :
       \E ts \in [names -> RouterTemplates] :
          ingressStore = [n \in names |-> RouterObject(n, ts[n])]
    /\ configMapStore = [g \in ConfigNames |-> ConfigMap(g, EmptyMap)]
    /\ nextUID = 3
    /\ usedNames = {}
    /\ pc = "idle"
    /\ queue = <<>>
    /\ stale = {}
    /\ errors = <<>>
    /\ log = <<>>
    /\ runs = 0
    /\ disturbed = FALSE
    /\ writes = 0
    /\ PlannerIdle

\* Reconcile(req) when the Get of the object succeeds or answers NotFound
Route(req) ==
    /\ pc = "idle"
    /\ ReconcileGot(RequestGet(req, IF req \in DOMAIN ingressStore THEN "" ELSE "NotFound"),
                    dropsRequest(ingressStore, req))

\* Reconcile(req) when the Get fails with another error: the error is
\* returned
GetFails(req) ==
    /\ pc = "idle"
    /\ log' = <<RequestGet(req, "Other")>>
    /\ errors' = <<"Other">>
    /\ UNCHANGED <<pc, queue, stale, runs, disturbed>>
    /\ UNCHANGED <<clusterVars, planVars, envVars>>

RouterNext ==
    \/ \E req \in OriginNames : Route(req)
    \/ \E req \in OriginNames : GetFails(req)
    \/ ReconcileBucket

RouterSpec == RouterInit /\ [][RouterNext]_vars

\* the step is the start of Reconcile for a request
RequestStep == pc = "idle" /\ Len(log') >= 1 /\ log'[1].op = "GetRequest"

\* the class of an object: spec.ingressClassName when not empty, else the
\* class annotation
ClassOf(obj) ==
    IF obj.Spec.IngressClassName \notin {Nil, Ptr("")}
    THEN obj.Spec.IngressClassName[1]
    ELSE MapGet(obj.Annotations, IngressClassAnnotation)

\* the object exists, is of another class than the watched one and is not
\* marked as a result
Filtered(req) ==
    /\ req \in DOMAIN ingressStore
    /\ ClassOf(ingressStore[req]) # IngressClass
    /\ MapGet(ingressStore[req].Annotations, ResultAnnotation) # "true"

\* C17: event router filter. When the object of the request exists, is of
\* another class than the watched one (spec.ingressClassName if not empty,
\* else the class annotation) and does not carry result = "true", Reconcile
\* returns success after the Get alone: no List, no write, the cluster as it
\* was.
C17_RouterFilter ==
    [][(RequestStep /\ log'[1].err = "" /\ Filtered(log'[1].name)) =>
          /\ Len(log') = 1
          /\ errors' = <<>>
          /\ pc' = "idle"
          /\ ingressStore' = ingressStore
          /\ configMapStore' = configMapStore]_vars

\* a request for an object whose spec.ingressClassName is another class
\* while its annotation names the watched class has been dropped
C17_Witness ==
    /\ pc = "idle"
    /\ Len(log) = 1
    /\ log[1].op = "GetRequest"
    /\ log[1].err = ""
    /\ Filtered(log[1].name)
    /\ MapGet(ingressStore[log[1].name].Annotations, IngressClassAnnotation) = IngressClass

C18_WitnessError ==
    /\ pc = "idle"
    /\ log = <<RequestGet(2, "Other")>>
    /\ errors = <<"Other">>

\* the annotations a user writes into config g1: none; one annotation; one
\* annotation and values for result and from-config; text that is not YAML
GivenAnnotations ==
    {EmptyMap,
     [k \in {AnnotationsConfigKey} |-> Yaml(TRUE, [x \in {"team"} |-> "edge"])],
     [k \in {AnnotationsConfigKey} |->
        Yaml(TRUE, [x \in {"team", ResultAnnotation, FromConfigAnnotation} |->
                       IF x = "team" THEN "edge"
                       ELSE IF x = ResultAnnotation THEN "false"
                       ELSE "g2"])],
     [k \in {AnnotationsConfigKey} |-> Yaml(FALSE, EmptyMap)]}

\* a namespace with the two configs, config g1 with drawn annotations, and
\* origins 1 and 2, not reconciled yet
AnnotationInit ==
    /\ \E t1, t2 \in OriginTemplates, data \in GivenAnnotations :
          /\ ingressStore =
                [n \in {1, 2} |-> OriginObject(n, IF n = 1 THEN t1 ELSE t2, n)]
          /\ configMapStore =
                [g \in ConfigNames |-> ConfigMap(g, IF g = "g1" THEN data ELSE EmptyMap)]
    /\ nextUID = 3
    /\ usedNames = {}
    /\ pc = "idle"
    /\ queue = <<>>
    /\ stale = {}
    /\ errors = <<>>
    /\ log = <<>>
    /\ runs = 0
    /\ disturbed = FALSE
    /\ writes = 0
    /\ PlannerIdle

\* a user changes the annotations of config g1 between two reconciles
GiveAnnotations(data) ==
    /\ pc = "idle"
    /\ runs >= 1
    /\ ApplyConfigMap("g1", data)

AnnotationNext ==
    \/ \E data \in GivenAnnotations : GiveAnnotations(data)
    \/ Reconcile
    \/ ReconcileBucket

AnnotationSpec == AnnotationInit /\ [][AnnotationNext]_vars

\* the annotations the config of the step gives, decoded
StepGiven ==
    IF /\ AnnotationsConfigKey \in DOMAIN StepConfig.Data
       /\ StepConfig.Data[AnnotationsConfigKey].valid
    THEN StepConfig.Data[AnnotationsConfigKey].value
    ELSE EmptyMap

\* C19: controller-managed annotations. Every merged ingress the controller
\* creates or updates carries result = "true" and from-config = the name of
\* the config, whatever the annotations of the config give for these two
\* keys, and every other annotation decoded from the config.
C19_ManagedAnnotations ==
    [][BucketStep =>
          \A d \in StepWritten :
              LET given == ingressStore'[d].Annotations
              IN  /\ MapGet(given, ResultAnnotation) = "true"
                  /\ MapGet(given, FromConfigAnnotation) = StepConfig.Name
                  /\ \A k \in DOMAIN StepGiven \ {ResultAnnotation, FromConfigAnnotation} :
                        k \in DOMAIN given /\ given[k] = StepGiven[k]]_vars

\* a merged ingress was updated under a config whose annotations give
\* result = "false" and from-config = g2, and carries the controller's values
C19_Witness ==
    /\ pc = "idle"
    /\ "g1" \in DOMAIN configMapStore
    /\ AnnotationsConfigKey \in DOMAIN configMapStore["g1"].Data
    /\ configMapStore["g1"].Data[AnnotationsConfigKey].valid
    /\ MapGet(configMapStore["g1"].Data[AnnotationsConfigKey].value, ResultAnnotation) = "false"
    /\ \E c \in 1..Len(log) :
          /\ log[c].op = "Update"
          /\ log[c].ok
          /\ log[c].name \in DOMAIN ingressStore
          /\ ingressStore[log[c].name].Annotations
                = [x \in {"team", ResultAnnotation, FromConfigAnnotation} |->
                      IF x = "team" THEN "edge"
                      ELSE IF x = ResultAnnotation THEN "true"
                      ELSE "g1"]

\* the object carries result = "true"
ResultMarked(obj) == MapGet(obj.Annotations, ResultAnnotation) = "true"

\* C20: an ingress that carries result = "true" is never an origin, whatever
\* its class and its config annotation: no bucket the controller plans has it
\* as a member, no merged ingress the controller writes lists it as an
\* owner, and the controller sends no status update for it.
C20_ResultNeverOrigin ==
    [][/\ \A i \in 1..Len(queue') :
             \A j \in 1..Len(queue'[i].bucket.Ingresses) :
                 ~ResultMarked(queue'[i].bucket.Ingresses[j])
       /\ BucketStep =>
             /\ \A d \in StepWritten :
                   \A o \in 1..Len(ingressStore'[d].OwnerReferences) :
                       LET owner == ingressStore'[d].OwnerReferences[o].Name
                       IN  owner \in DOMAIN ingressStore => ~ResultMarked(ingressStore[owner])
             /\ \A c \in 1..Len(StepCalls) :
                   StepCalls[c].op = "UpdateStatus" =>
                       ~ResultMarked(ingressStore[StepCalls[c].name])]_vars

\* object 1 carries result = "true" with the watched class and a config
\* annotation; the namespace was reconciled and the merged ingress created
\* has origin 2 as its only owner
C20_Witness ==
    /\ pc = "idle"
    /\ DOMAIN ingressStore \cap OriginNames = {1, 2}
    /\ ResultMarked(ingressStore[1])
    /\ getIngressClass(ingressStore[1]) = IngressClass
    /\ ConfigAnnotation \in DOMAIN ingressStore[1].Annotations
    /\ \E d \in MergedNames \cap DOMAIN ingressStore :
          /\ Len(ingressStore[d].OwnerReferences) = 1
          /\ ingressStore[d].OwnerReferences[1].Name = 2
    /\ \E c \in 1..Len(log) : log[c].op = "Create" /\ log[c].ok

\* C21: the planner returns no bucket without origins, whatever the origins,
\* the destinations and maxSlots.
C21_NoEmptyBucket ==
    pDone => \A b \in 1..Len(pOut) : Len(pOut[b].Ingresses) >= 1

\* the merged ingresses the step created
StepCreated ==
    {StepCalls[c].name : c \in {x \in 1..Len(StepCalls) : StepCalls[x].op = "Create"}}

\* C22: every Create and every Update of a merged ingress carries one owner
\* reference per origin of the bucket, in bucket order, and at least one; a
\* merged ingress is created only for a bucket that has origins and no
\* destination.
C22_OwnerReferences ==
    [][BucketStep =>
          /\ \A d \in StepWritten :
                /\ Len(ingressStore'[d].OwnerReferences) >= 1
                /\ ingressStore'[d].OwnerReferences = OwnerReferencesOf(StepBucket.Ingresses)
          /\ StepCreated # {} =>
                /\ StepBucket.DestinationIngress = Nil
                /\ StepBucket.Ingresses # <<>>]_vars

\* ------------------------------------------------------------------------
\* A namespace nobody writes to, reconciled again and again
\* ------------------------------------------------------------------------

QuietNext ==
    \/ Reconcile
    \/ ReconcileBucket

\* the namespace of StabilityInit, reconciled for ever: reconciles keep
\* being run, and a reconcile under way goes on to its next bucket
QuietSpec ==
    /\ StabilityInit
    /\ [][QuietNext]_vars
    /\ []<><<Reconcile>>_vars
    /\ WF_vars(ReconcileBucket)

\* the reconcile under way or last finished has written nothing so far
WritesNothing ==
    \A c \in 1..Len(log) : log[c].op \notin {"Create", "Update", "UpdateStatus"}

\* the config of the namespace asks for wildcard TLS
WildcardMode == MapGet(configMapStore["g1"].Data, UseWildcardTLSKey) = "true"

\* C23: convergence. When nobody else writes and every call succeeds, the
\* reconciles of the namespace reach a point from which no reconcile writes
\* (no Create, no Update, no status update), in wildcard TLS mode as well.
C23_Convergence == <>[]WritesNothing

\* C23 outside wildcard TLS mode
C23_ConvergenceNoWildcard == WildcardMode \/ <>[]WritesNothing

\* ------------------------------------------------------------------------
\* The planner on an origin of more slots than maxSlots
\* ------------------------------------------------------------------------

\* the unclaimed origins drawn that have more slots than maxSlots
Oversized == {o \in POriginSet : ListedBy(o) = {} /\ ingressSlots(o) > pIn.maxServices}

\* C30: oversized origin. An unclaimed origin of more slots than maxSlots
\* is placed, in a bucket without destination whose FreeSlots are then
\* maxSlots minus the slots of the origin.
C30_OversizedOrigin ==
    pDone =>
        \A o \in Oversized :
            /\ BucketsOf(pOut, o) # {}
            /\ \A b \in BucketsOf(pOut, o) :
                  /\ pOut[b].DestinationIngress = Nil
                  /\ pOut[b].FreeSlots = pIn.maxServices - ingressSlots(o)

\* C30 when at most one destination is given
C30_OversizedOriginOneDestination ==
    (pDone /\ Len(pIn.destinations) <= 1) =>
        \A o \in Oversized :
            /\ BucketsOf(pOut, o) # {}
            /\ \A b \in BucketsOf(pOut, o) :
                  /\ pOut[b].DestinationIngress = Nil
                  /\ pOut[b].FreeSlots = pIn.maxServices - ingressSlots(o)

\* ------------------------------------------------------------------------
\* Status updates that fail
\* ------------------------------------------------------------------------

\* a status update of the step failed
StepStatusFailed ==
    \E c \in 1..Len(StepCalls) : StepCalls[c].op = "UpdateStatus" /\ ~StepCalls[c].ok

\* every origin of the step's bucket whose status as listed differs from the
\* status read is sent a status update
StepSendsStatus ==
    \A i \in 1..Len(StepBucket.Ingresses) :
        StepBucket.Ingresses[i].Status # StepStatusRead =>
            \E c \in 1..Len(StepCalls) :
                /\ StepCalls[c].op = "UpdateStatus"
                /\ StepCalls[c].name = StepBucket.Ingresses[i].Name

\* C25: a status update that fails is swallowed. In the reconcile of a bucket
\* in which the status update of an origin fails, every origin of the bucket
\* whose status differs is still sent its update, no error is added, and the
\* origin that failed is left as stored; and every reconcile of a bucket
\* whose Create or Get succeeds sends a status update to every origin whose
\* status differs, so that a later reconcile sends the failed one again.
C25_StatusFailureSwallowed ==
    [][BucketStep =>
          /\ StepStatusFailed =>
                /\ errors' = errors
                /\ StepSendsStatus
                /\ \A c \in 1..Len(StepCalls) :
                      (/\ StepCalls[c].op = "UpdateStatus"
                       /\ ~StepCalls[c].ok
                       /\ StepCalls[c].name \in DOMAIN ingressStore)
                      => /\ StepCalls[c].name \in DOMAIN ingressStore'
                         /\ ingressStore'[StepCalls[c].name] = ingressStore[StepCalls[c].name]
          /\ (Len(StepCalls) >= 1 /\ StepCalls[1].ok) => StepSendsStatus]_vars

\* the status update of one origin of a bucket failed, that of the next
\* origin of the bucket succeeded, and the reconcile ended without error
C25_Witness ==
    /\ pc = "idle"
    /\ errors = <<>>
    /\ \E c \in 1..(Len(log) - 1) :
          /\ log[c].op = "UpdateStatus"
          /\ ~log[c].ok
          /\ log[c + 1].op = "UpdateStatus"
          /\ log[c + 1].ok
          /\ log[c + 1].name # log[c].name

\* ------------------------------------------------------------------------
\* Origins the controller has to skip
\* ------------------------------------------------------------------------

\* origins of the watched class with or without a config annotation, with
\* no priority, an integer or a text that is no integer
SkipTemplates ==
    [class : {"merge"}, config : {Nil, <<"g1">>}, priority : {Nil, <<"1">>, <<"x">>},
     ignore : {FALSE}, shape : {1, 2}]

\* a namespace with the two configs and origins 1 and 2, created in either
\* order, not reconciled yet
SkipInit ==
    /\ \E t1, t2 \in SkipTemplates, first \in {1, 2} :
          ingressStore =
             [n \in {1, 2} |->
                 OriginObject(n, IF n = 1 THEN t1 ELSE t2, IF n = first THEN 1 ELSE 2)]
    /\ configMapStore = [g \in ConfigNames |-> ConfigMap(g, EmptyMap)]
    /\ nextUID = 3
    /\ usedNames = {}
    /\ pc = "idle"
    /\ queue = <<>>
    /\ stale = {}
    /\ errors = <<>>
    /\ log = <<>>
    /\ runs = 0
    /\ disturbed = FALSE
    /\ writes = 0
    /\ PlannerIdle

SkipNext ==
    \/ Reconcile
    \/ ReconcileBucket

SkipSpec == SkipInit /\ [][SkipNext]_vars

\* the priority annotation of the object is no integer, or the object has no
\* config annotation
Offending(obj) ==
    \/ /\ PriorityAnnotation \in DOMAIN obj.Annotations
       /\ obj.Annotations[PriorityAnnotation] \notin {"-1", "0", "1", "2"}
    \/ ConfigAnnotation \notin DOMAIN obj.Annotations

\* the origins of the buckets of a queue
QueuedOrigins(q) ==
    UNION {{q[i].bucket.Ingresses[j] : j \in 1..Len(q[i].bucket.Ingresses)} : i \in 1..Len(q)}

\* C27: user-input errors skip the offending item alone. A namespace
\* reconcile puts no origin with a priority that is no integer or without
\* config annotation into a bucket, puts every other origin of the watched
\* class whose config exists into one, reconciles each of these buckets, and
\* ends without error when no call fails.
C27_SkipsOffendingOnly ==
    [][/\ pc = "idle" =>
             /\ \A o \in QueuedOrigins(queue') : ~Offending(o)
             /\ \A n \in DOMAIN ingressStore :
                   (/\ ~Offending(ingressStore[n])
                    /\ getIngressClass(ingressStore[n]) = IngressClass
                    /\ ingressStore[n].Annotations[ConfigAnnotation] \in DOMAIN configMapStore)
                   => ingressStore[n] \in QueuedOrigins(queue')
             /\ errors' = <<>>
       /\ BucketStep =>
             /\ StepWritten # {} \/ \E c \in 1..Len(StepCalls) : StepCalls[c].op = "Get"
             /\ (\A c \in 1..Len(StepCalls) : StepCalls[c].ok) => errors' = <<>>]_vars

\* origin 1 has a priority that is no integer, origin 2 is admitted: the
\* merged ingress created has origin 2 as its only owner and the reconcile
\* ended without error
C27_Witness ==
    /\ pc = "idle"
    /\ errors = <<>>
    /\ DOMAIN ingressStore \cap OriginNames = {1, 2}
    /\ MapGet(ingressStore[1].Annotations, PriorityAnnotation) = "x"
    /\ ConfigAnnotation \in DOMAIN ingressStore[1].Annotations
    /\ ~Offending(ingressStore[2])
    /\ \E c \in 1..Len(log) : log[c].op = "Create" /\ log[c].ok
    /\ \E d \in MergedNames \cap DOMAIN ingressStore :
          /\ Len(ingressStore[d].OwnerReferences) = 1
          /\ ingressStore[d].OwnerReferences[1].Name = 2

\* ------------------------------------------------------------------------
\* The order of the calls of a reconcile
\* ------------------------------------------------------------------------

\* in the calls l, the List is before every Get of a config, and every Get
\* of a config before every call for a bucket
ListThenConfigs(l) ==
    \A i, j \in 1..Len(l) :
        /\ (l[i].op = "List" /\ l[j].op = "GetConfigMap") => i < j
        /\ (/\ l[i].op = "GetConfigMap"
            /\ l[j].op \in {"Create", "Get", "Update", "UpdateStatus"}) => i < j

\* the calls of the step are a Create, or a Get that one Update of the same
\* object may follow, and after that status updates of origins of the bucket
StepCallsInOrder ==
    /\ Len(StepCalls) >= 1
    /\ StepCalls[1].op \in {"Create", "Get"}
    /\ \A c \in 2..Len(StepCalls) :
          \/ /\ StepCalls[c].op = "UpdateStatus"
             /\ \E i \in 1..Len(StepBucket.Ingresses) :
                   StepBucket.Ingresses[i].Name = StepCalls[c].name
          \/ /\ c = 2
             /\ StepCalls[1].op = "Get"
             /\ StepCalls[c].op = "Update"
             /\ StepCalls[c].name = StepCalls[1].name

\* C28 as stated: in a reconcile the List precedes every Get of a config and
\* every Get of a config precedes every write; for each bucket a Create, or
\* a Get with at most one Update after it, is issued, and the status
\* updates of the origins of the bucket come after it.
C28_RpcOrderEveryBucket ==
    [][ListThenConfigs(log') /\ (BucketStep => StepCallsInOrder)]_vars

\* C28, amended: the same for every bucket whose config does not name the
\* watched class in its annotations (the reconcile of such a bucket issues
\* no call).
C28_RpcOrder ==
    [][/\ ListThenConfigs(log')
       /\ (BucketStep /\ ~NamesWatchedClass(StepConfig)) => StepCallsInOrder]_vars

\* a reconcile has issued the List, a Get of a config, the Get and the
\* Update of a merged ingress and a status update, in this order
C28_Witness ==
    \E a, b, c, d, e \in 1..Len(log) :
        /\ a < b /\ b < c /\ d = c + 1 /\ d < e
        /\ log[a].op = "List"
        /\ log[b].op = "GetConfigMap"
        /\ log[c].op = "Get"
        /\ log[d].op = "Update"
        /\ log[e].op = "UpdateStatus"

\* ------------------------------------------------------------------------
\* controller.go: reconcileIngressBucket call by call, with calls that fail
\* ------------------------------------------------------------------------

\* r.Get that answers a missing object with an empty one and no error
getIngressZero(store, name) ==
    IF name \in DOMAIN store THEN [err |-> <<>>, value |-> store[name]]
    ELSE [err |-> <<>>,
          value |-> Ingress(name, 0, 0, EmptyMap, EmptyMap, <<>>, Nil, Nil, <<>>, <<>>, <<>>)]

\* r.Get of an ingress by name: the object, or the error NotFound
getIngress(store, name) ==
    IF name \in DOMAIN store THEN [err |-> <<>>, value |-> store[name]]
    ELSE [err |-> <<"NotFound">>, value |-> Nil]

\* afterGet whose Update overwrites what others wrote since the Get
afterGetOverwrites(store, staleNames, writtenSinceGet, configMap, bucket, hosts) ==
    LET existingMergedIngress == bucket.DestinationIngress[1]
        destination == existingMergedIngress.Name
        desired == [mergedIngressOf(configMap, bucket, hosts) EXCEPT !.Name = destination]
    IN  IF ~hasIngressChanged(existingMergedIngress, desired)
        THEN reflectStatus(bucket.Ingresses, existingMergedIngress.Status, staleNames,
                 configMap.Name, [store |-> store, calls |-> <<>>]) @@ [err |-> <<>>]
        ELSE IF destination \notin DOMAIN store
        THEN [store |-> store,
              calls |-> <<Call("Update", destination, configMap.Name, FALSE)>>,
              err |-> <<"NotFound">>]
        ELSE reflectStatus(bucket.Ingresses, existingMergedIngress.Status, staleNames,
                 configMap.Name,
                 [store |-> [store EXCEPT ![destination] =
                                updatedObject(store[destination], desired)],
                  calls |-> <<Call("Update", destination, configMap.Name, TRUE)>>])
             @@ [err |-> <<>>]

\* reconcileIngressBucket from the Get of the destination on; the bucket
\* holds the destination as the Get read it. The Update carries the version
\* read: it is rejected when the object has been written since
\* (writtenSinceGet) and not found when it is gone.
afterGet(store, staleNames, writtenSinceGet, configMap, bucket, hosts) ==
    LET existingMergedIngress == bucket.DestinationIngress[1]
        destination == existingMergedIngress.Name
        desired == [mergedIngressOf(configMap, bucket, hosts) EXCEPT !.Name = destination]
    IN  IF ~hasIngressChanged(existingMergedIngress, desired)
        THEN reflectStatus(bucket.Ingresses, existingMergedIngress.Status, staleNames,
                 configMap.Name, [store |-> store, calls |-> <<>>]) @@ [err |-> <<>>]
        ELSE IF destination \notin DOMAIN store
        THEN [store |-> store,
              calls |-> <<Call("Update", destination, configMap.Name, FALSE)>>,
              err |-> <<"NotFound">>]
        ELSE IF writtenSinceGet
        THEN [store |-> store,
              calls |-> <<Call("Update", destination, configMap.Name, FALSE)>>,
              err |-> <<"Conflict">>]
        ELSE reflectStatus(bucket.Ingresses, existingMergedIngress.Status, staleNames,
                 configMap.Name,
                 [store |-> [store EXCEPT ![destination] =
                                updatedObject(existingMergedIngress, desired)],
                  calls |-> <<Call("Update", destination, configMap.Name, TRUE)>>])
             @@ [err |-> <<>>]

\* a namespace with the two configs, both empty, and origins 1 and 2,
\* created in either order, not reconciled yet
FaultInit ==
    /\ \E t1, t2 \in OriginTemplates, first \in {1, 2} :
          ingressStore =
             [n \in {1, 2} |->
                 OriginObject(n, IF n = 1 THEN t1 ELSE t2, IF n = first THEN 1 ELSE 2)]
    /\ configMapStore = [g \in ConfigNames |-> ConfigMap(g, EmptyMap)]
    /\ nextUID = 3
    /\ usedNames = {}
    /\ pc = "idle"
    /\ queue = <<>>
    /\ stale = {}
    /\ errors = <<>>
    /\ log = <<>>
    /\ runs = 0
    /\ disturbed = FALSE
    /\ writes = 0
    /\ PlannerIdle

\* a user or the garbage collector deletes merged ingress d
DeleteMerged(d) ==
    /\ d \in DOMAIN ingressStore
    /\ MapGet(ingressStore[d].Annotations, ResultAnnotation) = "true"
    /\ ingressStore' = [x \in DOMAIN ingressStore \ {d} |-> ingressStore[x]]
    /\ OthersWrite(d)
    /\ UNCHANGED <<configMapStore, nextUID, planVars>>

\* the end of the reconcile of a bucket that returns at the first error
NextBucketStopsAtError ==
    IF Len(errors') > Len(errors) \/ Tail(queue) = <<>>
    THEN queue' = <<>> /\ Finished(disturbed)
    ELSE queue' = Tail(queue) /\ pc' = "buckets" /\ UNCHANGED <<runs, disturbed>>

\* the end of the reconcile of a bucket: on to the next one, or the end of
\* the namespace reconcile
NextBucket ==
    /\ queue' = Tail(queue)
    /\ IF Tail(queue) = <<>> THEN Finished(disturbed)
       ELSE pc' = "buckets" /\ UNCHANGED <<runs, disturbed>>

\* reconcileIngressBucket for a bucket without destination, or for a config
\* that names the watched class
CreateBucket ==
    /\ pc = "buckets"
    /\ \/ Head(queue).bucket.DestinationIngress = Nil
       \/ abortsSelfMerge(Head(queue).configMap)
    /\ ReconcileBucket

\* reconcileIngressBucket for a bucket without destination when the Create
\* fails: the error is returned
CreateFails ==
    /\ pc = "buckets"
    /\ Head(queue).bucket.DestinationIngress = Nil
    /\ ~abortsSelfMerge(Head(queue).configMap)
    /\ log' = Append(log, Call("Create", 0, Head(queue).configMap.Name, FALSE))
    /\ errors' = Append(errors, "Create")
    /\ NextBucket
    /\ UNCHANGED <<clusterVars, stale, planVars, envVars>>

\* reconcileIngressBucket for a bucket with a destination, up to the Get:
\* the error is returned, or the object read is kept with the bucket
GetBucket ==
    /\ pc = "buckets"
    /\ Head(queue).bucket.DestinationIngress # Nil
    /\ ~abortsSelfMerge(Head(queue).configMap)
    /\ LET configMap == Head(queue).configMap
           destination == Head(queue).bucket.DestinationIngress[1].Name
           got == getIngress(ingressStore, destination)
       IN  /\ log' = Append(log, Call("Get", destination, configMap.Name, got.err = <<>>))
           /\ errors' = errors \o got.err
           /\ IF got.err # <<>>
              THEN NextBucket /\ UNCHANGED stale
              ELSE /\ pc' = "got"
                   /\ queue' = [queue EXCEPT ![1].bucket.DestinationIngress = Ptr(got.value)]
                   /\ stale' = stale \ {destination}
                   /\ UNCHANGED <<runs, disturbed>>
    /\ UNCHANGED <<clusterVars, planVars, envVars>>

\* reconcileIngressBucket after the Get: the Update when the merged ingress
\* differs from the object read, and the status updates
ApplyBucket ==
    /\ pc = "got"
    /\ LET configMap == Head(queue).configMap
           bucket == Head(queue).bucket
           destination == bucket.DestinationIngress[1].Name
       IN  \E hosts \in KeyOrders(wildcardDomainsOf(configMap, bucket)) :
              LET done == afterGet(ingressStore, stale, destination \in stale,
                                   configMap, bucket, hosts)
              IN  /\ ingressStore' = done.store
                  /\ log' = log \o done.calls
                  /\ errors' = errors \o done.err
    /\ NextBucket
    /\ UNCHANGED <<configMapStore, nextUID, usedNames, stale, planVars, envVars>>

\* the data config g1 is given: none, or annotations with the watched class
FaultConfigData == {d \in ConfigDataG1 : DOMAIN d \subseteq {AnnotationsConfigKey}}

FaultNext ==
    \/ \E data \in FaultConfigData : ApplyConfigMap("g1", data)
    \/ \E d \in MergedNames : DeleteMerged(d)
    \/ \E d \in MergedNames : AnnotateMerged(d)
    \/ \E d \in MergedNames, status \in LoadBalancerStatuses : SetLoadBalancerStatus(d, status)
    \/ Reconcile
    \/ CreateBucket
    \/ CreateFails
    \/ GetBucket
    \/ ApplyBucket

FaultSpec == FaultInit /\ [][FaultNext]_vars

\* a step of the controller that ends the reconcile of a bucket
BucketEnd == pc \in {"buckets", "got"} /\ ControllerStep /\ pc' # "got"

\* the calls of the log for a merged ingress that failed
FailedCalls(l) == {c \in 1..Len(l) : l[c].op \in {"Create", "Get", "Update"} /\ ~l[c].ok}

\* C24: error aggregation. When the reconcile of a bucket fails (its Create,
\* Get or Update fails), its error is added to those of the invocation, the
\* namespace reconcile goes on with the next bucket, of the same config or
\* of another, and the errors of the invocation are, one for one, those of
\* the calls that failed.
C24_ErrorAggregation ==
    [][/\ BucketEnd =>
             /\ queue' = Tail(queue)
             /\ Tail(queue) # <<>> => pc' = "buckets"
             /\ Len(errors') = Len(errors) + (IF FailedCalls(StepCalls) # {} THEN 1 ELSE 0)
             /\ SubSeq(errors', 1, Len(errors)) = errors
       /\ (pc' \in {"buckets", "got"} \/ pc \in {"buckets", "got"}) =>
             Len(errors') = Cardinality(FailedCalls(log'))]_vars

\* a reconcile in which a bucket failed, a later bucket was reconciled all
\* the same, with success, and the error of the first is returned
C24_Witness ==
    /\ pc = "idle"
    /\ Len(errors) = 1
    /\ \E a, b \in 1..Len(log) :
          /\ a < b
          /\ a \in FailedCalls(log)
          /\ log[b].op \in {"Create", "Update"} /\ log[b].ok

\* the destination of the bucket under way has been written by another
\* since the Get read it
WrittenSinceGet ==
    /\ pc = "got"
    /\ Head(queue).bucket.DestinationIngress[1].Name \in DOMAIN ingressStore
    /\ ingressStore[Head(queue).bucket.DestinationIngress[1].Name]
          # Head(queue).bucket.DestinationIngress[1]

\* C26: optimistic concurrency. When the merged ingress was modified by
\* another writer between the Get and the Update of a bucket reconcile, the
\* Update is rejected, the merged ingress keeps what the other wrote, the
\* error is returned and no status update is issued for the bucket.
C26_OptimisticConcurrency ==
    [][(/\ BucketEnd
        /\ WrittenSinceGet
        /\ \E c \in 1..Len(StepCalls) : StepCalls[c].op = "Update") =>
          /\ Len(StepCalls) = 1
          /\ ~StepCalls[1].ok
          /\ ingressStore' = ingressStore
          /\ errors' = Append(errors, "Conflict")]_vars

\* an Update was rejected for a merged ingress that carries the annotation
\* of another controller, and the reconcile returned the error
C26_Witness ==
    /\ pc = "idle"
    /\ "Conflict" \in {errors[e] : e \in 1..Len(errors)}
    /\ \E c \in 1..Len(log) :
          /\ log[c].op = "Update"
          /\ ~log[c].ok
          /\ log[c].name \in DOMAIN ingressStore
          /\ "external-managed-field-01" \in DOMAIN ingressStore[log[c].name].Annotations
          /\ log[c - 1] = [log[c] EXCEPT !.op = "Get", !.ok = TRUE]

\* the destination of the bucket next in turn is gone
DestinationGone ==
    /\ pc = "buckets"
    /\ Head(queue).bucket.DestinationIngress # Nil
    /\ Head(queue).bucket.DestinationIngress[1].Name \notin DOMAIN ingressStore

\* the reconcile of the bucket issues the Get alone, which fails, and
\* returns its error
StepGetNotFound ==
    /\ StepCalls = <<Call("Get", Head(queue).bucket.DestinationIngress[1].Name,
                          Head(queue).configMap.Name, FALSE)>>
    /\ errors' = Append(errors, "NotFound")
    /\ ingressStore' = ingressStore
    /\ queue' = Tail(queue)

\* C29 as stated: when the destination of a bucket no longer exists as the
\* bucket is reconciled, the Get answers NotFound, the error is returned,
\* and no Create, no Update and no status update is issued for the bucket.
C29_DestinationDeletedEveryBucket ==
    [][(DestinationGone /\ ControllerStep) => StepGetNotFound]_vars

\* C29: destination deleted between List and Get. When the destination of a
\* bucket no longer exists as the bucket is reconciled, and the config of
\* the bucket does not name the watched class in its annotations, the Get
\* answers NotFound, the error is returned, and no Create, no Update and no
\* status update is issued for the bucket.
C29_DestinationDeleted ==
    [][(/\ DestinationGone
        /\ ~NamesWatchedClass(Head(queue).configMap)
        /\ ControllerStep) => StepGetNotFound]_vars

\* a Get of a merged ingress answered NotFound, the merged ingress is gone,
\* and the reconcile returned the error
C29_Witness ==
    /\ pc = "idle"
    /\ errors = <<"NotFound">>
    /\ \E c \in 1..Len(log) :
          /\ log[c].op = "Get"
          /\ ~log[c].ok
          /\ log[c].name \notin DOMAIN ingressStore
          /\ \A x \in 1..Len(log) :
                log[x].name = log[c].name => log[x].op = "Get"

\* ------------------------------------------------------------------------
\* The planner: order of the result, slots, free slots
\* ------------------------------------------------------------------------

\* the buckets of the result without destination, by position
FreshBuckets == {b \in 1..Len(pOut) : pOut[b].DestinationIngress = Nil}

\* C31: result order of the planner. The result holds first one bucket per
\* destination, by destination name ascending whatever the order of the
\* destinations given, then the buckets without destination in the order of
\* their allocation (an origin of an earlier bucket is never after an origin
\* of a later one in the order of packing); without origins and destinations
\* the result is empty.
C31_ResultOrder ==
    pDone =>
        LET nd == Len(pIn.destinations)
        IN  /\ Len(pOut) >= nd
            /\ \A b \in 1..nd :
                  /\ pOut[b].DestinationIngress # Nil
                  /\ \E j \in 1..nd : pOut[b].DestinationIngress = Ptr(pIn.destinations[j])
                  /\ pOut[b].Name = pOut[b].DestinationIngress[1].Name
            /\ \A b \in 1..(nd - 1) : pOut[b].Name < pOut[b + 1].Name
            /\ FreshBuckets = (nd + 1)..Len(pOut)
            /\ \A b, c \in FreshBuckets :
                  b < c => \A i \in 1..Len(pOut[b].Ingresses), j \in 1..Len(pOut[c].Ingresses) :
                              ~LessBySlots(pOut[c].Ingresses[j], pOut[b].Ingresses[i])
            /\ (pIn.origins = <<>> /\ pIn.destinations = <<>>) => pOut = <<>>

\* two destinations given in descending order of name, and two buckets
\* without destination that hold origins
C31_Witness ==
    /\ pDone
    /\ Len(pIn.destinations) = 2
    /\ pIn.destinations[1].Name > pIn.destinations[2].Name
    /\ pIn.maxServices > 0
    /\ \E b, c \in FreshBuckets :
          b < c /\ pOut[b].Ingresses # <<>> /\ pOut[c].Ingresses # <<>>

\* no argument given: the result is empty
C31_WitnessEmpty ==
    pDone /\ pIn.origins = <<>> /\ pIn.destinations = <<>> /\ pOut = <<>>

\* the most rules and the most paths of a rule drawn for ingressSlots
SMaxRules == 3
SMaxPaths == 2

\* an IngressRule with its pointer HTTP: nil for a rule of a host alone (the
\* traffic of the host goes to the default backend), or a pointer to the
\* HTTPIngressRuleValue with the paths
HTTPRule(host, http) == [Host |-> host, HTTP |-> http]

\* the values of HTTP drawn: nil, or 0..SMaxPaths paths
SHTTPValues == {Nil} \cup {Ptr([Paths |-> [p \in 1..n |-> p]]) : n \in 0..SMaxPaths}

\* ingressSlots on rules with the pointer HTTP: rule.HTTP.Paths panics on a
\* nil pointer, otherwise the slots are counted over the paths
ingressSlotsDeref(rules) ==
    IF \E i \in 1..Len(rules) : rules[i].HTTP = Nil
    THEN [panic |-> TRUE, slots |-> 0]
    ELSE [panic |-> FALSE,
          slots |-> ingressSlots(
              [Spec |-> [Rules |-> [i \in 1..Len(rules) |->
                                       IngressRule(rules[i].Host, rules[i].HTTP[1].Paths)]]])]

SlotInit ==
    /\ \E n \in 0..SMaxRules : \E https \in [1..n -> SHTTPValues] :
          pIn = [i \in 1..n |-> HTTPRule(<<"h", "example", "org">>, https[i])]
    /\ pDone = FALSE
    /\ pOut = <<>>
    /\ ControllerInit

\* the call ingressSlots(&ingress)
CountSlots ==
    /\ ~pDone
    /\ pDone' = TRUE
    /\ pOut' = ingressSlotsDeref(pIn)
    /\ UNCHANGED pIn
    /\ UNCHANGED <<clusterVars, ctlVars, envVars>>

SlotNext == CountSlots

SlotSpec == SlotInit /\ [][SlotNext]_vars

\* the greater of two numbers
Max(a, b) == IF a >= b THEN a ELSE b

\* the number of paths of a rule
NumPaths(rule) == IF rule.HTTP = Nil THEN 0 ELSE Len(rule.HTTP[1].Paths)

\* the sum over the rules of max(1, number of paths)
RECURSIVE SumOfRules(_)
SumOfRules(rules) ==
    IF rules = <<>> THEN 0
    ELSE Max(1, NumPaths(Head(rules))) + SumOfRules(Tail(rules))

\* C32: slot accounting. For every origin, ingressSlots returns
\* max(1, sum over the rules of max(1, number of paths of the rule)): at
\* least 1 for an origin without rules, and 1 for a rule without any path.
C32_SlotAccounting ==
    pDone => /\ ~pOut.panic
             /\ pOut.slots = Max(1, SumOfRules(pIn))

\* the same for origins whose rules all have the pointer HTTP set
C32_SlotAccountingHTTPSet ==
    (pDone /\ \A i \in 1..Len(pIn) : pIn[i].HTTP # Nil) =>
        /\ ~pOut.panic
        /\ pOut.slots = Max(1, SumOfRules(pIn))

\* C33: FreeSlots bookkeeping. Every bucket returned has FreeSlots equal to
\* maxSlots less the slots of its origins, those its destination lists and
\* those packed into it alike.
C33_FreeSlots ==
    pDone => \A b \in 1..Len(pOut) :
                pOut[b].FreeSlots = pIn.maxServices - SlotSum(Always, pOut[b].Ingresses)

\* a bucket with destination that holds an origin its destination lists and
\* an origin packed into it, and a bucket without destination with an origin
C33_Witness ==
    /\ pDone
    /\ \E b \in 1..Len(pOut) :
          /\ pOut[b].DestinationIngress # Nil
          /\ \E i, j \in 1..Len(pOut[b].Ingresses) :
                /\ Lists(pOut[b].DestinationIngress[1], pOut[b].Ingresses[i])
                /\ ListedBy(pOut[b].Ingresses[j]) = {}
    /\ \E b \in FreshBuckets : pOut[b].Ingresses # <<>>

\* the origins of a bucket no destination lists: those the packing placed
Packed(bucket) == {i \in 1..Len(bucket.Ingresses) : ListedBy(bucket.Ingresses[i]) = {}}

\* the free slots of a bucket before its i-th origin was appended
FreeBefore(bucket, i) ==
    pIn.maxServices - SlotSum(Always, SubSeq(bucket.Ingresses, 1, i - 1))

\* C34: a full destination receives no new origin. An origin no destination
\* lists is placed into a bucket with destination only when the bucket has
\* FreeSlots > 0 just before; a bucket with destination whose FreeSlots is
\* <= 0 once the origins its destination lists are attached ends with these
\* origins alone.
C34_FullDestination ==
    pDone => \A b \in 1..Len(pOut) :
                pOut[b].DestinationIngress # Nil =>
                    /\ \A i \in Packed(pOut[b]) : FreeBefore(pOut[b], i) > 0
                    /\ pIn.maxServices
                         - SlotSum(LAMBDA o : ListedBy(o) # {}, pOut[b].Ingresses) <= 0
                          => Packed(pOut[b]) = {}

\* a destination filled by the origin it lists keeps it alone, and an origin
\* no destination lists went into the other destination, which had room
C34_Witness ==
    /\ pDone
    /\ pIn.maxServices > 0
    /\ \E b, c \in 1..Len(pOut) :
          /\ pOut[b].DestinationIngress # Nil
          /\ pOut[b].Ingresses # <<>>
          /\ pOut[b].FreeSlots <= 0
          /\ Packed(pOut[b]) = {}
          /\ b < c
          /\ pOut[c].DestinationIngress # Nil
          /\ Packed(pOut[c]) # {}

\* ------------------------------------------------------------------------
\* The groups and their merged ingresses
\* ------------------------------------------------------------------------

\* the from-config a stored or listed merged ingress declares
FromConfigOf(obj) == MapGet(obj.Annotations, FromConfigAnnotation)

\* C35: destination selection by config. The reconcile of a bucket of
\* group g issues a Get or an Update only for the destination of the
\* bucket, which declares from-config = g, as listed and as stored; a merged
\* ingress that declares another from-config is not called for by the group,
\* even when its owner references name an origin of the group.
C35_DestinationByConfig ==
    [][BucketStep =>
          \A c \in 1..Len(StepCalls) :
              StepCalls[c].op \in {"Get", "Update"} =>
                  /\ StepBucket.DestinationIngress # Nil
                  /\ StepCalls[c].name = StepBucket.DestinationIngress[1].Name
                  /\ FromConfigOf(StepBucket.DestinationIngress[1]) = StepConfig.Name
                  /\ StepCalls[c].name \in DOMAIN ingressStore =>
                        FromConfigOf(ingressStore[StepCalls[c].name]) = StepConfig.Name]_vars

\* a reconcile has finished in which a merged ingress of another group,
\* whose owner references name an origin of group g, was not called for by
\* group g, which created a merged ingress of its own for the origin
C35_Witness ==
    /\ pc = "idle"
    /\ \E o \in OriginNames \cap DOMAIN ingressStore :
       \E d1, d2 \in MergedNames \cap DOMAIN ingressStore :
          LET g == MapGet(ingressStore[o].Annotations, ConfigAnnotation)
          IN  /\ FromConfigOf(ingressStore[d1]) # g
              /\ Lists(ingressStore[d1], ingressStore[o])
              /\ FromConfigOf(ingressStore[d2]) = g
              /\ Lists(ingressStore[d2], ingressStore[o])
              /\ \E c \in 1..Len(log) : log[c] = Call("Create", d2, g, TRUE)
              /\ \A c \in 1..Len(log) : log[c].name = d1 => log[c].config # g

\* the stored merged ingresses whose owner references name stored origin o
ListingMerged(o) ==
    {d \in MergedNames \cap DOMAIN ingressStore : Lists(ingressStore[d], ingressStore[o])}

\* C36: once a reconcile has finished after the last edit by a user, each
\* origin is named by the owner references of at most one merged ingress.
C36_OneMergedPerOrigin ==
    (pc = "idle" /\ runs >= 1) =>
        \A o \in OriginNames \cap DOMAIN ingressStore : Cardinality(ListingMerged(o)) <= 1

\* the same while every group that has a merged ingress has an origin
C36_OneMergedPerOriginLiveGroups ==
    (/\ pc = "idle" /\ runs >= 1
     /\ \A d \in MergedNames \cap DOMAIN ingressStore :
           \E o \in OriginNames \cap DOMAIN ingressStore :
               MapGet(ingressStore[o].Annotations, ConfigAnnotation) = FromConfigOf(ingressStore[d]))
    => \A o \in OriginNames \cap DOMAIN ingressStore : Cardinality(ListingMerged(o)) <= 1

\* the stored origins the owner references of merged ingress d name, in the
\* order of the references (0 for a reference that names no stored origin)
OwnersOf(d) ==
    [i \in 1..Len(ingressStore[d].OwnerReferences) |->
        LET r == ingressStore[d].OwnerReferences[i]
        IN  IF /\ r.Kind = "Ingress"
               /\ r.Name \in DOMAIN ingressStore \ StoredMerged
               /\ ingressStore[r.Name].UID = r.UID
            THEN r.Name ELSE 0]

\* merged ingress d is in sync: every owner reference names a stored origin
\* that is admitted with the config d was made from, and the rules of d are
\* the merge by host of the rules of these origins
InSync(d) ==
    LET owners == OwnersOf(d)
        given == RulesOf([i \in 1..Len(owners) |-> ingressStore[owners[i]]])
        merged == ingressStore[d].Spec.Rules
    IN  /\ \A i \in 1..Len(owners) :
              owners[i] \in AdmittedOrigins(FromConfigOf(ingressStore[d]))
        /\ HostsOf(merged) = HostsOf(given)
        /\ \A h \in HostsOf(given) :
              /\ Cardinality({i \in 1..Len(merged) : merged[i].Host = h}) = 1
              /\ \A i \in 1..Len(merged) :
                    merged[i].Host = h => merged[i].Paths = PathsFor(h, given)

\* a namespace reconcile has finished without error, undisturbed
ReconciledClean == pc = "idle" /\ runs >= 1 /\ errors = <<>>

\* C37: merged ingresses stay in sync. After a namespace reconcile that
\* finished without error, every owner reference of every merged ingress of
\* the namespace names a stored origin that is admitted and whose config
\* annotation is the from-config of the merged ingress, and the rules of
\* the merged ingress are the merge by host of the rules of these origins.
C37_InSync ==
    ReconciledClean => \A d \in StoredMerged : InSync(d)

\* the same for the merged ingresses the reconcile created, or read with
\* success
C37_InSyncReconciled ==
    ReconciledClean =>
        \A d \in StoredMerged :
            (\E c \in 1..Len(log) : /\ log[c].name = d
                                     /\ log[c].op \in {"Create", "Get"}
                                     /\ log[c].ok) => InSync(d)

\* the number of paths of a list of rules
RECURSIVE CountPaths(_)
CountPaths(rules) ==
    IF rules = <<>> THEN 0 ELSE Len(Head(rules).Paths) + CountPaths(Tail(rules))

\* C38: distinct hosts. The rules of the merged ingress have pairwise
\* distinct hosts, whether the rules of a host come from several origins or
\* from one, and the merged ingress has as many paths as the origins of the
\* bucket have together.
C38_DistinctHosts ==
    pDone =>
        /\ \A i, j \in 1..Len(pOut.Spec.Rules) :
              pOut.Spec.Rules[i].Host = pOut.Spec.Rules[j].Host => i = j
        /\ CountPaths(pOut.Spec.Rules) = CountPaths(RulesOf(pIn.bucket.Ingresses))

\* an origin with two rules for one host and another origin with a rule
\* for the same host: one rule in the merged ingress, with the three paths
C38_Witness ==
    /\ pDone
    /\ \E a, b \in 1..Len(pIn.bucket.Ingresses) :
          /\ a # b
          /\ Len(pIn.bucket.Ingresses[a].Spec.Rules) = 2
          /\ pIn.bucket.Ingresses[a].Spec.Rules[1].Host = HostA
          /\ pIn.bucket.Ingresses[a].Spec.Rules[2].Host = HostA
          /\ \E r \in 1..Len(pIn.bucket.Ingresses[b].Spec.Rules) :
                pIn.bucket.Ingresses[b].Spec.Rules[r].Host = HostA
    /\ \E i \in 1..Len(pOut.Spec.Rules) :
          pOut.Spec.Rules[i].Host = HostA /\ Len(pOut.Spec.Rules[i].Paths) >= 3

\* ------------------------------------------------------------------------
\* Merged ingresses that others label and annotate
\* ------------------------------------------------------------------------

\* the label another controller puts on a merged ingress
ForeignLabel == "external-label-01"

\* another controller puts a label of its own on merged ingress d
LabelMerged(d) ==
    /\ d \in DOMAIN ingressStore
    /\ MapGet(ingressStore[d].Annotations, ResultAnnotation) = "true"
    /\ ForeignLabel \notin DOMAIN ingressStore[d].Labels
    /\ ingressStore' = [ingressStore EXCEPT ![d].Labels = MapSet(@, ForeignLabel, "t")]
    /\ OthersWrite(d)
    /\ UNCHANGED <<configMapStore, nextUID, planVars>>

ReplaceInit == FaultInit

ReplaceNext ==
    \/ \E d \in MergedNames : LabelMerged(d)
    \/ \E d \in MergedNames : AnnotateMerged(d)
    \/ \E n \in OriginNames : DeleteOrigin(n)
    \/ Reconcile
    \/ ReconcileBucket

ReplaceSpec == ReplaceInit /\ [][ReplaceNext]_vars

\* the merged ingress the step computes for its bucket
StepDesired == mergedIngressOf(StepConfig, StepBucket, <<>>)

\* the step issues an Update
StepUpdates == \E c \in 1..Len(StepCalls) : StepCalls[c].op = "Update" /\ StepCalls[c].ok

\* C39: full replacement on update. When the controller issues an Update of
\* a merged ingress, the labels, annotations, owner references and spec
\* written are those computed in this reconcile; an annotation that only
\* the stored object had is not in the object written; and a label that
\* only the stored object has brings about the Update.
C39_FullReplacement ==
    [][(BucketStep /\ StepBucket.DestinationIngress # Nil) =>
          LET d == StepBucket.DestinationIngress[1].Name
          IN  /\ StepUpdates =>
                    /\ ingressStore'[d].Labels = StepDesired.Labels
                    /\ ingressStore'[d].Annotations = StepDesired.Annotations
                    /\ ingressStore'[d].OwnerReferences = StepDesired.OwnerReferences
                    /\ ingressStore'[d].Spec = StepDesired.Spec
                    /\ \A k \in DOMAIN ingressStore[d].Annotations :
                          k \notin DOMAIN StepDesired.Annotations =>
                              k \notin DOMAIN ingressStore'[d].Annotations
              /\ (/\ d \in DOMAIN ingressStore
                  /\ ForeignLabel \in DOMAIN ingressStore[d].Labels) => StepUpdates]_vars

\* a merged ingress was labelled and annotated by others after the List and
\* before its Update, which left neither the label nor the annotation
C39_Witness ==
    /\ pc = "idle"
    /\ \E d \in stale \cap MergedNames \cap DOMAIN ingressStore :
          /\ writes >= 2
          /\ OriginNames \subseteq DOMAIN ingressStore
          /\ ForeignLabel \notin DOMAIN ingressStore[d].Labels
          /\ "external-managed-field-01" \notin DOMAIN ingressStore[d].Annotations
          /\ \E c \in 1..Len(log) : log[c].op = "Update" /\ log[c].name = d /\ log[c].ok

\* ------------------------------------------------------------------------
\* Configs whose Get fails
\* ------------------------------------------------------------------------

\* the items of the listing for which the loop of reconcileNamespace fetches
\* a config among `failing`: origins of the watched class, not ignored, with
\* a priority that is an integer or none, that name such a config
FetchesFailing(items, failing) ==
    {i \in 1..Len(items) :
        /\ MapGet(items[i].Annotations, ResultAnnotation) # "true"
        /\ getIngressClass(items[i]) = IngressClass
        /\ ~isIgnored(items[i])
        /\ PriorityAnnotation \in DOMAIN items[i].Annotations
              => ~Atoi(items[i].Annotations[PriorityAnnotation]).err
        /\ ConfigAnnotation \in DOMAIN items[i].Annotations
        /\ items[i].Annotations[ConfigAnnotation] \in failing}

\* the loop of reconcileNamespace when the Get of the configs in `failing`
\* fails with an error that is not NotFound, taken for NotFound: the origin
\* is skipped and the loop goes on
groupIngressesSkipsFailing(items, store, failing) ==
    LET done == groupIngresses(items, [g \in DOMAIN store \ failing |-> store[g]],
                               [mergeMap |-> EmptyMap, configMaps |-> EmptyMap,
                                resultIngresses |-> <<>>, calls |-> <<>>])
    IN  done @@ [err |-> <<>>]

\* the loop of reconcileNamespace when the Get of the configs in `failing`
\* fails with an error that is not NotFound: the loop runs as usual up to
\* the first item for which such a config is fetched, and returns the error
groupIngressesGetFails(items, store, failing) ==
    LET hit == FetchesFailing(items, failing)
        acc0 == [mergeMap |-> EmptyMap, configMaps |-> EmptyMap,
                 resultIngresses |-> <<>>, calls |-> <<>>]
    IN  IF hit = {}
        THEN groupIngresses(items, store, acc0) @@ [err |-> <<>>]
        ELSE LET i == CHOOSE x \in hit : \A y \in hit : x <= y
                 before == groupIngresses(SubSeq(items, 1, i - 1), store, acc0)
             IN  [before EXCEPT
                     !.calls = Append(@, Call("GetConfigMap", 0,
                                              items[i].Annotations[ConfigAnnotation], FALSE))]
                 @@ [err |-> <<"GetConfigMap">>]

\* Reconcile(req) for a request it does not drop, while the Get of the
\* configs in `failing` fails with an error that is not NotFound
ReconcileConfigFails(failing) ==
    /\ pc = "idle"
    /\ failing # {}
    /\ failing \subseteq DOMAIN configMapStore
    /\ LET grouped == groupIngressesGetFails(ListIngresses(ingressStore), configMapStore, failing)
           listed == <<Call("GetRequest", 0, "", TRUE), Call("List", 0, "", TRUE)>>
       IN  IF grouped.err # <<>>
           THEN /\ log' = listed \o grouped.calls
                /\ errors' = grouped.err
                /\ stale' = {}
                /\ queue' = <<>>
                /\ Finished(FALSE)
           ELSE \E order \in KeyOrders(DOMAIN grouped.mergeMap) :
                  LET work == workOf(grouped, order)
                      fresh == {i \in 1..Len(work) : work[i].bucket.DestinationIngress = Nil}
                  IN  /\ Cardinality(fresh) <= Cardinality(MergedNames \ usedNames)
                      /\ log' = listed \o grouped.calls
                      /\ errors' = <<>>
                      /\ stale' = {}
                      /\ queue' = work
                      /\ IF work = <<>> THEN Finished(FALSE)
                         ELSE pc' = "buckets" /\ disturbed' = FALSE /\ UNCHANGED runs
    /\ UNCHANGED <<clusterVars, planVars, envVars>>

ConfigFaultInit == FaultInit

ConfigFaultNext ==
    \/ \E n \in OriginNames, t \in OriginTemplates : UpdateOrigin(n, t)
    \/ \E n \in OriginNames : DeleteOrigin(n)
    \/ \E g \in WrittenConfigs : DeleteConfigMap(g)
    \/ \E failing \in SUBSET ConfigNames : ReconcileConfigFails(failing)
    \/ Reconcile
    \/ ReconcileBucket

ConfigFaultSpec == ConfigFaultInit /\ [][ConfigFaultNext]_vars

\* the calls of log l that are Gets of a config in the namespace that failed:
\* the config is there, so the error is not NotFound
FailedConfigGets(l) ==
    {c \in 1..Len(l) : /\ l[c].op = "GetConfigMap"
                       /\ ~l[c].ok
                       /\ l[c].config \in DOMAIN configMapStore}

\* C40: a config Get that fails with an error other than NotFound aborts the
\* namespace reconcile before any write. The failed Get is the last call of
\* the invocation, the error is returned, no Create, Update or status update
\* was issued, no bucket is left to reconcile and the objects of the
\* namespace are as they were.
C40_ConfigGetFails ==
    [][(pc = "idle" /\ ControllerStep /\ FailedConfigGets(log') # {}) =>
          /\ FailedConfigGets(log') = {Len(log')}
          /\ errors' = <<"GetConfigMap">>
          /\ \A c \in 1..Len(log') : log'[c].op \notin WriteOps
          /\ pc' = "idle"
          /\ queue' = <<>>
          /\ ingressStore' = ingressStore
          /\ configMapStore' = configMapStore]_vars

\* a reconcile has returned the error of the Get of a config after the Get
\* of another config had succeeded for an origin listed before: no write
C40_Witness ==
    /\ pc = "idle"
    /\ errors = <<"GetConfigMap">>
    /\ Len(log) = 4
    /\ log[3].op = "GetConfigMap" /\ log[3].ok
    /\ log[4].op = "GetConfigMap" /\ ~log[4].ok
    /\ log[4].config \in DOMAIN configMapStore
    /\ \E n \in OriginNames \cap DOMAIN ingressStore :
          /\ MapGet(ingressStore[n].Annotations, ConfigAnnotation) = log[3].config
          /\ ListingMerged(n) = {}

====
